---- MODULE Spec2Model ----
(***************************************************************************)
(* State machine of the RSI trading bot: the lock-guarded StateManager     *)
(* (src/core/state_manager.py), the EventBus queue and its dispatch loop   *)
(* (src/core/event_bus.py), the TradingService engine                      *)
(* (src/services/trading_service.py), the cooldown handlers and the loss   *)
(* scan of DatabaseManager (src/persistence/database_manager.py) and the   *)
(* web endpoints that call the store (src/web/server.py).                  *)
(*                                                                         *)
(* Units.  Python floats are modelled in fixed point: money in hundredths  *)
(* of a USDT, percentages in hundredths of a percent, time in whole        *)
(* seconds.  Divisions round towards minus infinity (\div).                *)
(*                                                                         *)
(* Granularity.  One action is one critical section of the code (one       *)
(* "with lock:" block) or one run of statements that touch no shared       *)
(* state; a thread's position between two such blocks is its pc.           *)
(***************************************************************************)
EXTENDS Integers, Sequences, FiniteSets, TLC

\* ------------------------------------------------------------------ bounds
MaxCalls == 2          \* external calls (feed, indicator, web requests) per run
MaxTicks == 1          \* clock advances per run
MaxThreads == 2        \* handler / request threads alive at once
MaxQueue == 4          \* events waiting in the EventBus queue
MaxCoinsPerChange == 150   \* coins sharing one 24h change value
MaxBusEvents == 3      \* events published on the bus watched on its own
StartTime == 100       \* time.time() when the services start

\* ------------------------------------------------------ program constants
RSI_ALERT_THRESHOLD == 95
MAX_OPEN_TRADES == 10
LEVERAGE == 2
RSI_HOT_COIN_THRESHOLD == 10
MAX_COINS_TO_MONITOR == 100
TRADE_CLOSE_RSI == 65
LOSS_TRADES_LIMIT_24H == 1
GLOBAL_PAUSE_DURATION_HOURS == 24
TRADE_AMOUNT_FIXED_USDT == 3
TRADE_AMOUNT_PERCENTAGE == 10
TAKE_PROFIT_PERCENT == 10
DEFAULT_COOLDOWN_PERIOD == 172800
STALE_SIGNAL_LOOKBACK_HOURS == 12
LIVE_FAIL_COOLDOWN == 300
LIVE_EXIT_EPSILON == 1     \* 0.01 USDT, in cents
ALERT_LOG_MAX == 50
RATE_LIMIT_SECONDS == 10
\* TRADE_AMOUNT_TYPE = "fixed_usdt", LIVE_TRADING_ENABLED = False
TRADE_AMOUNT_TYPE == "fixed_usdt"
LIVE_TRADING_ENABLED == FALSE

\* Indicator sentinels.  rsi_data holds a float, the string 'New_Coin', or has
\* no entry (dict.get gives None); isinstance(v, (int, float)) is IsNumeric.
NEW_COIN == -1
NONE == -2
IsNumeric(v) == v >= 0

\* Hundredths of a USDT / of a percent.
Cents(x) == x * 100
\* max(trade_amount, 5.1) of handle_rsi_update, in hundredths
MIN_MARGIN_CENTS == 510

\* ------------------------------------------------------------ input sets
Symbols == {"X", "Y"}
\* Symbols restored from the trade database that the market feed does not
\* list: they have no coin_data entry and no indicator sample.
Background == {"B1", "B2", "B3", "B4", "B5", "B6", "B7", "B8", "B9"}
Prices == {90, 100}
\* samples the indicator service delivers: for X a sentinel, a value at or
\* below TRADE_CLOSE_RSI and a value above RSI_ALERT_THRESHOLD; for Y the last
RsiInputs(s) == IF s = "X" THEN {NEW_COIN, 60, 96} ELSE {96}
\* seconds by which the clock advances: within the rate limit, exactly the
\* rate limit, a day (the pause duration; two make the default cooldown)
TickSteps == {1, 10, 86400}

\* 24h changes (percent) around the base threshold, how many coins may share
\* one of them at the start, and how many a market-data batch moves
ChangeValues == {9, 10, 11, 12}
CoinCounts == {0, 1, 50, 99, 100}
BatchSizes == {50}

Threads == 1..MaxThreads
Min(a, b) == IF a < b THEN a ELSE b
Max(a, b) == IF a > b THEN a ELSE b
Abs(a) == IF a < 0 THEN 0 - a ELSE a

\* ---------------------------------------------------------------- state
VARIABLES
    now,                        \* time.time(), whole seconds
    ticks,                      \* clock advances so far
    calls,                      \* external calls so far
    \* StateManager
    coin_data,                  \* symbol -> last price (0: no entry)
    rsi_data,                   \* symbol -> indicator sample (NONE: no entry)
    active_trades,              \* dict symbol -> trade record
    cooldowned_coins,           \* dict symbol -> [reason, end_time]
    portfolio,                  \* [balance]
    global_stats,               \* cumulative profit / loss / win / loss counts
    controls,                   \* control flags (threading.Event.is_set())
    alert_log,                  \* newest first, at most ALERT_LOG_MAX entries
    last_trade_execution_time,
    pause_timers,               \* deadlines of the started auto-lift timers, in
                                \* the order they were started
    rsi_peak_tracker,           \* dict symbol -> [peak_price, timestamp]
    \* EventBus
    event_queue,                \* queue.Queue of published events, FIFO
    \* DatabaseManager
    alert_counter,              \* last_alert_number of the alert counter file
    db_trades,                  \* rows of the trades table
    \* threads
    thr,                        \* handler and web-request threads
    mon,                        \* TradingService.run, the paper monitor
    \* observation of the step just taken (which operation ran, on what, and
    \* what it returned); reset by every step
    obs,
    \* history: when the engine last opened a trade, and until when the cooldown
    \* scheduled by the last close of a symbol runs (0: none, or since removed)
    last_engine_open,
    close_cooldown_until,
    \* history: how many TRADE_OPENED events were published for each symbol
    opened_events,
    \* the change_24h of the entries of coin_data, as a bag: how many coins have
    \* each change value (coin_data above keeps the price of the listed symbols)
    coin_changes,
    change_24h,                 \* the change_24h of the listed symbols' entries
    coin_status,                \* the 'status' key of the listed symbols' entries
                                \* ("-": the entry has no such key)
    \* the dict a GET /data request got from get_full_state_snapshot
    snapshot,
    \* what the last get_symbols_to_monitor call computed
    symbols_to_monitor,
    \* EventBus seen from outside: the types published and dequeued so far, in
    \* order, and the handler threads started, each with the position of its
    \* event in the dequeue order, its callback and how far it got
    bus,
    \* TradingService, live monitoring
    live_trade_monitor_threads, \* the keys of the monitor registry
    live_loops,                 \* the _dedicated_live_monitor_loop threads
                                \* started so far, in the order of their start
    \* history: when execute_short_trade last failed for a symbol (NONE: never)
    live_fail_time

storeVars == <<coin_data, rsi_data, active_trades, cooldowned_coins, portfolio,
               global_stats, controls, alert_log, last_trade_execution_time,
               pause_timers>>
vars == <<now, ticks, calls, coin_data, rsi_data, active_trades, cooldowned_coins,
          portfolio, global_stats, controls, alert_log, last_trade_execution_time,
          pause_timers, event_queue, alert_counter, db_trades, thr, mon, obs,
          last_engine_open, close_cooldown_until, opened_events, coin_changes,
          change_24h, coin_status, snapshot, symbols_to_monitor, bus, rsi_peak_tracker, live_trade_monitor_threads,
          live_loops, live_fail_time>>

\* ------------------------------------------------------------- records
NoTrade ==
    [alert_num |-> 0, entry_price |-> 0, entry_rsi |-> NONE, trade_amount |-> 0,
     leverage |-> 0, pnl_percent |-> 0, pnl_usdt |-> 0, source |-> "-",
     max_neg_pnl_pct |-> 0, max_neg_pnl_usdt |-> 0, max_neg_rsi |-> 0]

\* The dict literal of open_trade / restore_live_trade (entry_time, read only
\* by the persistence of the trade duration, is not modelled).
NewTrade(alert_number, price, rsi_value, trade_amount, leverage, source) ==
    [alert_num |-> alert_number, entry_price |-> price, entry_rsi |-> rsi_value,
     trade_amount |-> trade_amount, leverage |-> leverage,
     pnl_percent |-> 0, pnl_usdt |-> 0, source |-> source,
     max_neg_pnl_pct |-> 0, max_neg_pnl_usdt |-> 0,
     max_neg_rsi |-> IF IsNumeric(rsi_value) THEN rsi_value ELSE 0]

\* An event {'type':, 'data':}; the fields of data an event type does not
\* carry keep the values below.  TRADE_OPENED carries the trade record alone
\* (the record has no 'symbol' key), TRADE_CLOSED the record, reason, close
\* price, exit indicator and new balance.
NoEvent ==
    [type |-> "-", sym |-> "-", rsi |-> NONE, reason |-> "-", end_time |-> 0,
     trade |-> NoTrade, close_price |-> 0, new_balance |-> 0, loss_count |-> 0]

Event(type) == [NoEvent EXCEPT !.type = type]
EvRsi(s, v) == [NoEvent EXCEPT !.type = "STATE_UPDATED_RSI", !.sym = s, !.rsi = v]
EvAddCooldown(s, reason, end_time) ==
    [NoEvent EXCEPT !.type = "ADD_TO_COOLDOWN", !.sym = s, !.reason = reason,
                    !.end_time = end_time]
EvRemoveCooldown(s) == [NoEvent EXCEPT !.type = "REMOVE_FROM_COOLDOWN", !.sym = s]
EvTradeOpened(trade) == [NoEvent EXCEPT !.type = "TRADE_OPENED", !.trade = trade]
EvTradeClosed(trade, reason, close_price, exit_rsi, new_balance) ==
    [NoEvent EXCEPT !.type = "TRADE_CLOSED", !.trade = trade, !.reason = reason,
                    !.close_price = close_price, !.rsi = exit_rsi,
                    !.new_balance = new_balance]
EvPauseTriggered(n) == [NoEvent EXCEPT !.type = "GLOBAL_PAUSE_TRIGGERED", !.loss_count = n]

\* A thread: kind "idle" is a free slot.
IdleThread ==
    [kind |-> "idle", pc |-> "-", sym |-> "-", rsi |-> NONE, price |-> 0,
     amount |-> 0, alert |-> 0, in_trade |-> FALSE, on_cd |-> FALSE,
     reason |-> "-", end_time |-> 0, trade |-> NoTrade, new_balance |-> 0,
     source |-> "Bot"]

\* What the last step did: the operation, its symbol and source arguments,
\* whether it took effect, and per operation a reason (why), a number (n), a
\* flag, a price and a trade record.
NoObs == [op |-> "-", sym |-> "-", src |-> "-", ok |-> FALSE, why |-> "-",
          n |-> 0, flag |-> FALSE, price |-> 0, trade |-> NoTrade]
Obs(op, sym, src, ok, why) ==
    [NoObs EXCEPT !.op = op, !.sym = sym, !.src = src, !.ok = ok, !.why = why]

\* ------------------------------------------------- StateManager, readers
IsOpen(s) == s \in DOMAIN active_trades
OpenCount == Cardinality(DOMAIN active_trades)

\* cooldown_info and time.time() < cooldown_info['end_time']
IsOnCooldown(s) ==
    /\ s \in DOMAIN cooldowned_coins
    /\ now < cooldowned_coins[s].end_time

can_open_new_trade_at_boundary ==
    /\ controls.trade_execution_enabled
    /\ ~controls.global_pause_active
    /\ OpenCount < MAX_OPEN_TRADES
    /\ (now - last_trade_execution_time) >= RATE_LIMIT_SECONDS

can_open_new_trade ==
    /\ controls.trade_execution_enabled
    /\ ~controls.global_pause_active
    /\ OpenCount < MAX_OPEN_TRADES
    /\ (now - last_trade_execution_time) > RATE_LIMIT_SECONDS

\* add_alert_log: insert at the front, keep the newest ALERT_LOG_MAX
add_alert_log(log, tag, s) ==
    LET l == <<[tag |-> tag, sym |-> s]>> \o log
    IN  SubSeq(l, 1, Min(Len(l), ALERT_LOG_MAX))

\* open_trade, lines 166-170: the amount when the caller passes none
resolve_trade_amount(trade_amount) ==
    IF trade_amount # NONE THEN trade_amount
    ELSE IF TRADE_AMOUNT_TYPE = "percentage"
         THEN (portfolio.balance * TRADE_AMOUNT_PERCENTAGE) \div 100
         ELSE Cents(TRADE_AMOUNT_FIXED_USDT)

IsLive(source) == source = "Live"

open_trade_outcome_no_guard(symbol, source, trade_amount) ==
    IF ~IsLive(source) /\ portfolio.balance < resolve_trade_amount(trade_amount)
    THEN "insufficient"
    ELSE "ok"

open_trade_outcome_no_funds_check(symbol, source, trade_amount) ==
    IF IsOpen(symbol) THEN "already_open" ELSE "ok"

\* open_trade, lines 164-174: which way the critical section goes
open_trade_outcome(symbol, source, trade_amount) ==
    IF IsOpen(symbol) THEN "already_open"
    ELSE IF ~IsLive(source) /\ portfolio.balance < resolve_trade_amount(trade_amount)
         THEN "insufficient"
         ELSE "ok"
\* d[k] = v of a Python dict, and d.pop(k)
DictSet(d, k, v) == [x \in DOMAIN d \cup {k} |-> IF x = k THEN v ELSE d[x]]
DictPop(d, k) == [x \in DOMAIN d \ {k} |-> d[x]]

\* ------------------------------------------------ StateManager, mutators
\* Each operator below is the body of one "with self.lock:" block.  It fixes
\* the next value of the variables that block may write; the calling action
\* fixes the rest.

\* open_trade, lines 163-186
open_trade(symbol, price, rsi_value, source, alert_number, trade_amount) ==
    LET out == open_trade_outcome(symbol, source, trade_amount)
        amt == resolve_trade_amount(trade_amount)
    IN  /\ active_trades' =
              IF out = "ok"
              THEN DictSet(active_trades, symbol,
                           NewTrade(alert_number, price, rsi_value, amt, LEVERAGE, source))
              ELSE active_trades
        /\ last_trade_execution_time' =
              IF out = "ok" THEN now ELSE last_trade_execution_time
        /\ alert_log' =
              CASE out = "ok" -> add_alert_log(alert_log, "OPEN SHORT", symbol)
                [] out = "insufficient" -> add_alert_log(alert_log, "SKIP", symbol)
                [] OTHER -> alert_log
        /\ last_engine_open' =
              IF out = "ok" /\ source = "Bot" THEN now ELSE last_engine_open
        /\ obs' = [Obs("open_trade", symbol, source, out = "ok", out)
                      EXCEPT !.n = last_engine_open, !.flag = IsOpen(symbol)]

\* restore_live_trade, lines 64-73
restore_live_trade(symbol, entry_price, trade_amount, leverage, alert_num, entry_rsi) ==
    /\ active_trades' =
          IF IsOpen(symbol) THEN active_trades
          ELSE DictSet(active_trades, symbol,
                       NewTrade(alert_num, entry_price, entry_rsi, trade_amount,
                                leverage, "Live"))
    /\ obs' = [Obs("restore_live_trade", symbol, "Live", ~IsOpen(symbol), "-")
                  EXCEPT !.flag = IsOpen(symbol)]

close_trade_stats_always_win(trade_data) ==
    IF IsLive(trade_data.source) THEN global_stats
    ELSE [global_stats EXCEPT !.global_profit_usdt = @ + trade_data.pnl_usdt,
                              !.profitable_trades = @ + 1]

\* close_trade, lines 196-205: the counters after a close
close_trade_stats(trade_data) ==
    IF IsLive(trade_data.source) THEN global_stats
    ELSE IF trade_data.pnl_usdt >= 0
         THEN [global_stats EXCEPT !.global_profit_usdt = @ + trade_data.pnl_usdt,
                                   !.profitable_trades = @ + 1]
         ELSE [global_stats EXCEPT !.global_loss_usdt = @ + Abs(trade_data.pnl_usdt),
                                   !.loss_trades = @ + 1]

\* close_trade, lines 216-221: the three publishes after the lock is released
close_trade_events(trade_data, reason, close_price, exit_rsi) ==
    <<EvTradeClosed(trade_data, reason, close_price, exit_rsi, portfolio.balance),
      Event("STATS_UPDATED"), Event("PORTFOLIO_UPDATED")>>

close_trade_found_always(symbol) == TRUE

\* close_trade, line 193: is there a trade to close
close_trade_found(symbol) == IsOpen(symbol)

\* close_trade, lines 192-214.  When the symbol is not open the block returns
\* at once; otherwise the record is popped, a paper trade's pnl_usdt is
\* realized, ADD_TO_COOLDOWN is published and the alert log gets a line.
\* held: the caller itself holds the (re-entrant) lock around the call, so
\* that the publishes of lines 216-221 belong to the same step.
close_trade(symbol, reason, close_price, exit_rsi, is_held) ==
    LET found == close_trade_found(symbol)
        trade_data == IF IsOpen(symbol) THEN active_trades[symbol] ELSE NoTrade
        new_balance == IF IsLive(trade_data.source) THEN portfolio.balance
                       ELSE portfolio.balance + trade_data.pnl_usdt
        held == IF is_held
                THEN <<EvTradeClosed(trade_data, reason, close_price, exit_rsi, new_balance),
                       Event("STATS_UPDATED"), Event("PORTFOLIO_UPDATED")>>
                ELSE <<>>
    IN  /\ active_trades' = IF found THEN DictPop(active_trades, symbol) ELSE active_trades
        /\ portfolio' =
              IF found /\ ~IsLive(trade_data.source)
              THEN [portfolio EXCEPT !.balance = @ + trade_data.pnl_usdt]
              ELSE portfolio
        /\ global_stats' = IF found THEN close_trade_stats(trade_data) ELSE global_stats
        /\ event_queue' =
              IF found
              THEN Append(event_queue,
                          EvAddCooldown(symbol, reason, now + DEFAULT_COOLDOWN_PERIOD)) \o held
              ELSE event_queue
        /\ alert_log' =
              IF found THEN add_alert_log(alert_log, "CLOSE SHORT", symbol) ELSE alert_log
        /\ close_cooldown_until' =
              IF found
              THEN [close_cooldown_until EXCEPT ![symbol] = now + DEFAULT_COOLDOWN_PERIOD]
              ELSE close_cooldown_until
        /\ obs' = [Obs("close_trade", symbol, trade_data.source, IsOpen(symbol), reason)
                      EXCEPT !.n = trade_data.pnl_usdt, !.price = close_price,
                             !.trade = trade_data]

update_trade_pnl_recreating(symbol, pnl_percent, pnl_usdt, current_rsi) ==
    DictSet(active_trades, symbol,
            [(IF IsOpen(symbol) THEN active_trades[symbol] ELSE NoTrade)
                EXCEPT !.pnl_percent = pnl_percent, !.pnl_usdt = pnl_usdt])
\* update_trade_pnl, lines 224-237
update_trade_pnl(symbol, pnl_percent, pnl_usdt, current_rsi) ==
    IF ~IsOpen(symbol) THEN active_trades
    ELSE LET t0 == active_trades[symbol]
             t1 == [t0 EXCEPT !.pnl_percent = pnl_percent, !.pnl_usdt = pnl_usdt]
             t2 == IF current_rsi # NONE /\ IsNumeric(current_rsi)
                   THEN [t1 EXCEPT
                           !.max_neg_pnl_pct = IF pnl_percent < @ THEN pnl_percent ELSE @,
                           !.max_neg_pnl_usdt = IF pnl_usdt < @ THEN pnl_usdt ELSE @,
                           !.max_neg_rsi = IF current_rsi < @ THEN current_rsi ELSE @]
                   ELSE t1
         IN  DictSet(active_trades, symbol, t2)

lift_global_pause_rearming ==
    /\ controls' = [controls EXCEPT !.global_pause_active = FALSE,
                                    !.trade_execution_enabled = TRUE]
    /\ event_queue' =
          IF controls.global_pause_active
          THEN Append(event_queue, Event("GLOBAL_PAUSE_LIFTED"))
          ELSE event_queue

\* lift_global_pause, lines 276-281
lift_global_pause ==
    /\ controls' = [controls EXCEPT !.global_pause_active = FALSE]
    /\ event_queue' =
          IF controls.global_pause_active
          THEN Append(event_queue, Event("GLOBAL_PAUSE_LIFTED"))
          ELSE event_queue

\* toggle_control, lines 249-265
ControlNames == {"websocket_enabled", "rsi_enabled", "trading_enabled", "email_enabled",
                 "monitor_all_coins", "global_pause_active", "trade_execution_enabled"}

toggle_control_all_flags(control_name, action) ==
    IF control_name = "all"
    THEN /\ controls' = [n \in ControlNames |-> action # "pause"]
         /\ UNCHANGED event_queue
    ELSE IF control_name \in ControlNames
         THEN IF control_name = "global_pause_active" /\ action = "resume"
              THEN lift_global_pause
              ELSE IF control_name # "global_pause_active"
                   THEN /\ controls' = [controls EXCEPT ![control_name] = (action # "pause")]
                        /\ UNCHANGED event_queue
                   ELSE UNCHANGED <<controls, event_queue>>
         ELSE UNCHANGED <<controls, event_queue>>

toggle_control(control_name, action) ==
    IF control_name = "all"
    THEN /\ controls' = [n \in ControlNames |->
                            IF n = "global_pause_active" THEN controls[n]
                            ELSE action # "pause"]
         /\ UNCHANGED event_queue
    ELSE IF control_name \in ControlNames
         THEN IF control_name = "global_pause_active" /\ action = "resume"
              THEN lift_global_pause
              ELSE IF control_name # "global_pause_active"
                   THEN /\ controls' = [controls EXCEPT ![control_name] = (action # "pause")]
                        /\ UNCHANGED event_queue
                   ELSE UNCHANGED <<controls, event_queue>>
         ELSE UNCHANGED <<controls, event_queue>>

activate_global_pause_without_timer(loss_count) ==
    IF ~controls.global_pause_active
    THEN /\ controls' = [controls EXCEPT !.global_pause_active = TRUE,
                                         !.trade_execution_enabled = FALSE]
         /\ event_queue' = Append(event_queue, EvPauseTriggered(loss_count))
         /\ pause_timers' = pause_timers
    ELSE UNCHANGED <<controls, event_queue, pause_timers>>

activate_global_pause_unguarded(loss_count) ==
    /\ controls' = [controls EXCEPT !.global_pause_active = TRUE,
                                    !.trade_execution_enabled = FALSE]
    /\ event_queue' = Append(event_queue, EvPauseTriggered(loss_count))
    /\ pause_timers' = Append(pause_timers, now + GLOBAL_PAUSE_DURATION_HOURS * 3600)

\* activate_global_pause, lines 267-274
activate_global_pause(loss_count) ==
    IF ~controls.global_pause_active
    THEN /\ controls' = [controls EXCEPT !.global_pause_active = TRUE,
                                         !.trade_execution_enabled = FALSE]
         /\ event_queue' = Append(event_queue, EvPauseTriggered(loss_count))
         /\ pause_timers' = Append(pause_timers, now + GLOBAL_PAUSE_DURATION_HOURS * 3600)
    ELSE UNCHANGED <<controls, event_queue, pause_timers>>
\* ------------------------------------------------------ DatabaseManager
\* A row of the trades table (the columns the model reads).
\* PNL_USDT is NULL until the row is closed: has_pnl says whether it is set.
DbRow(alert_id, symbol, status, has_pnl, pnl_usdt, timestamp, source) ==
    [alert_id |-> alert_id, symbol |-> symbol, status |-> status, has_pnl |-> has_pnl,
     pnl_usdt |-> pnl_usdt, timestamp |-> timestamp, source |-> source]

\* _read_db_to_df(self, query, db_path=None), lines 127-138.  Python binds the
\* arguments before the body runs: a call that passes no query raises
\* TypeError in the caller.
read_db_to_df(n_args) ==
    IF n_args < 1 THEN [raised |-> TRUE, rows |-> {}]
    ELSE [raised |-> FALSE, rows |-> db_trades]

\* check_for_global_pause, lines 332-355: the number of losing trades the scan
\* finds in the trailing 24 hours, or NONE when it returns early or lands in
\* its except branch.  Line 334 calls self._read_db_to_df() with no argument.
check_for_global_pause_losses ==
    LET df == read_db_to_df(0)
        recent == {r \in df.rows : r.timestamp > now - 24 * 3600}
        loss_trades == {r \in recent : r.has_pnl /\ r.pnl_usdt < 0}
    IN  IF df.raised THEN NONE
        ELSE IF df.rows = {} THEN NONE
        ELSE Cardinality(loss_trades)

\* ---------------------------------------------------------------- Init
\* The runs start after start-up: main_bot.py has built the components and
\* loaded the files and databases of an earlier run (lines 30-38).  In the
\* scenarios marked armed the operator has also resumed all controls (POST
\* /toggle-control, all / resume) and the feed has delivered a first batch.
\*   "fresh"     no earlier run: no portfolio file, so the balance is the 0.0
\*               of StateManager.__init__; nothing armed
\*   "armed"     the portfolio file holds PortfolioFileBalance (as in all the
\*               scenarios below); armed
\*   "restored"  armed; nine open paper trades restored from the trades table,
\*               on symbols the feed does not list
\*   "open"      armed; one open paper trade on X restored from the trades table
\*   "cooldown"  an unexpired cooldown of X restored from the cooldown table
\*   "losses"    three closed losing trades of the last day in the trades table
Scenarios == {"fresh", "armed", "restored", "open", "underwater", "cooldown", "losses"}
Armed(sc) == sc \in {"armed", "restored", "open", "underwater", "two_underwater",
                     "tight", "short", "live_row"}
\* the balance FileManager.load_portfolio reads from the file of an earlier run
PortfolioFileBalance == Cents(1000)

RestoredTrade(n) == NewTrade(n, 100, 96, Cents(TRADE_AMOUNT_FIXED_USDT), LEVERAGE, "Bot")

BackgroundNumber(b) ==
    CASE b = "B1" -> 1 [] b = "B2" -> 2 [] b = "B3" -> 3 [] b = "B4" -> 4
      [] b = "B5" -> 5 [] b = "B6" -> 6 [] b = "B7" -> 7 [] b = "B8" -> 8
      [] b = "B9" -> 9

InitTrades(sc) ==
    CASE sc = "restored" -> [b \in Background |-> RestoredTrade(BackgroundNumber(b))]
      [] sc = "open" -> [x \in {"X"} |-> RestoredTrade(1)]
      [] sc = "underwater" -> [x \in {"X"} |-> [RestoredTrade(1) EXCEPT !.entry_price = 90]]
      [] sc = "two_underwater" ->
            [x \in Symbols |-> [RestoredTrade(IF x = "X" THEN 1 ELSE 2)
                                    EXCEPT !.entry_price = 90]]
      [] OTHER -> [x \in {} |-> NoTrade]

InitDb(sc) ==
    CASE sc = "restored" ->
            {DbRow(BackgroundNumber(b), b, "Open", FALSE, 0, StartTime - 3600, "Bot") : b \in Background}
      [] sc \in {"open", "underwater"} ->
            {DbRow(1, "X", "Open", FALSE, 0, StartTime - 3600, "Bot")}
      [] sc = "two_underwater" ->
            {DbRow(1, "X", "Open", FALSE, 0, StartTime - 3600, "Bot"),
             DbRow(2, "Y", "Open", FALSE, 0, StartTime - 3600, "Bot")}
      [] sc = "losses" ->
            {DbRow(n, "X", "Closed", TRUE, 0 - 60 * n, StartTime - 3600 * n, "Bot") : n \in 1..3}
      [] sc = "live_row" ->
            {DbRow(1, "X", "Open", FALSE, 0, StartTime - 3600, "Live")}
      [] OTHER -> {}

InitAlertCounter(sc) ==
    CASE sc = "restored" -> 9 [] sc \in {"open", "underwater", "live_row"} -> 1
      [] sc = "two_underwater" -> 2
      [] sc = "losses" -> 3 [] OTHER -> 0

InitCooldowns(sc) ==
    IF sc = "cooldown"
    THEN [x \in {"X"} |-> [reason |-> "Manual Add", end_time |-> StartTime + 3600]]
    ELSE [x \in {} |-> [reason |-> "-", end_time |-> 0]]

MonIdle ==
    [pc |-> "wait", todo |-> {}, snap |-> [x \in {} |-> NoTrade], sym |-> "-",
     price |-> 0, rsi |-> NONE, pnl_percent |-> 0, pnl_usdt |-> 0, reason |-> "-",
     trade |-> NoTrade]

NoWatchList == [called |-> FALSE, hot_coins_above_base |-> 0, dynamic_threshold |-> 0,
                final_hot_coins |-> [v \in ChangeValues |-> 0], symbols |-> <<>>]

\* no GET /data request under way.  Of the snapshot: which symbols have
\* an entry in its coin_data, for which of them that entry is the very dict
\* the store holds (shared), its active_trades and alerted_coins, and the
\* symbols the request has not got to yet.
NoSnapshot ==
    [coin_data |-> {}, shared |-> {}, active_trades |-> <<>>, alerted_coins |-> <<>>,
     todo |-> {}]

InitBotWith(sc, peak_tracker_file) ==
        /\ now = StartTime
        /\ ticks = 0
        /\ calls = 0
        /\ coin_data = [s \in Symbols |-> IF Armed(sc) THEN 100 ELSE 0]
        /\ rsi_data = [s \in Symbols |-> NONE]
        /\ active_trades = InitTrades(sc)
        /\ cooldowned_coins = InitCooldowns(sc)
        /\ portfolio = [balance |-> CASE sc = "fresh" -> 0
                                     [] sc = "tight" -> MIN_MARGIN_CENTS + 40
                                     [] sc = "short" -> MIN_MARGIN_CENTS - 1
                                     [] OTHER -> PortfolioFileBalance]
        /\ global_stats = [global_profit_usdt |-> 0, global_loss_usdt |-> 0,
                           profitable_trades |-> 0, loss_trades |-> 0]
        /\ controls = [n \in ControlNames |->
                          IF n = "global_pause_active" THEN FALSE
                          ELSE \/ Armed(sc)
                               \/ n \in {"websocket_enabled", "rsi_enabled",
                                         "monitor_all_coins"}]
        /\ alert_log = <<>>
        /\ last_trade_execution_time = 0
        /\ pause_timers = <<>>
        /\ event_queue = <<>>
        /\ alert_counter = InitAlertCounter(sc)
        /\ db_trades = InitDb(sc)
        /\ thr = [t \in Threads |-> IdleThread]
        /\ mon = MonIdle
        /\ obs = NoObs
        /\ last_engine_open = NONE
        /\ close_cooldown_until = [s \in Symbols \cup Background |-> 0]
        /\ opened_events = [s \in Symbols |-> 0]
        /\ symbols_to_monitor = NoWatchList
        /\ coin_status = [s \in Symbols |-> "-"]
        /\ snapshot = NoSnapshot
        /\ bus = [published |-> <<>>, dispatched |-> <<>>, started |-> <<>>]
        /\ rsi_peak_tracker = peak_tracker_file
        /\ live_trade_monitor_threads = {}
        /\ live_loops = <<>>
        /\ live_fail_time = [s \in Symbols |-> NONE]

\* no rsi_peak_tracker.json to load
InitBot(sc) ==
    /\ InitBotWith(sc, <<>>)
    /\ change_24h = [s \in Symbols |-> RSI_HOT_COIN_THRESHOLD]

\* the listed symbols, when the scanner has seen them, sit at the base threshold
Init ==
    \E sc \in Scenarios :
        /\ InitBot(sc)
        /\ coin_changes = [v \in ChangeValues |->
                              IF v = RSI_HOT_COIN_THRESHOLD /\ Armed(sc)
                              THEN Cardinality(Symbols) ELSE 0]

\* ---------------------------------------------------- external callers
dbVars == <<alert_counter, db_trades>>
histVars == <<last_engine_open, close_cooldown_until, opened_events>>
timeVars == <<now, ticks>>
liveVars == <<live_trade_monitor_threads, live_loops, live_fail_time>>
scanVars == <<coin_changes, change_24h, coin_status, snapshot, symbols_to_monitor, bus,
              rsi_peak_tracker, liveVars>>

CallWithin(max) == /\ calls < max
                   /\ calls' = calls + 1
Call == CallWithin(MaxCalls)

FreeSlots == {t \in Threads : thr[t].kind = "idle"}
FirstFree == CHOOSE t \in FreeSlots : \A u \in FreeSlots : t <= u

\* time passes
Tick ==
    /\ ticks < MaxTicks
    /\ \E d \in TickSteps : now' = now + d
    /\ ticks' = ticks + 1
    /\ obs' = NoObs
    /\ UNCHANGED <<scanVars, calls, storeVars, event_queue, dbVars, thr, mon, histVars>>

\* update_market_data, lines 125-138: one feed batch with a new price for
\* every listed symbol.  Each entry is a new dict: what a snapshot holds of
\* the old ones is no longer shared with the store.
UpdateMarketDataFrom(prices) ==
    /\ Call
    /\ Len(event_queue) < MaxQueue
    /\ \E p \in prices :
          /\ coin_data # [s \in Symbols |-> p]
          /\ coin_data' = [s \in Symbols |-> p]
    /\ coin_status' = [s \in Symbols |-> "-"]
    /\ snapshot' = [snapshot EXCEPT !.shared = {}]
    /\ event_queue' = Append(event_queue, Event("STATE_UPDATED_MARKET"))
    /\ obs' = NoObs
    /\ UNCHANGED <<timeVars, coin_changes, change_24h, symbols_to_monitor, bus,
                   rsi_peak_tracker, liveVars, rsi_data, active_trades, cooldowned_coins, portfolio,
                   global_stats, controls, alert_log, last_trade_execution_time,
                   pause_timers, dbVars, thr, mon, histVars>>

UpdateMarketData == UpdateMarketDataFrom(Prices)

\* update_rsi_value, lines 148-158: the peak tracker after a sample
peak_tracker_after_always_set(tracker, symbol, rsi_value, current_price, t) ==
    IF IsNumeric(rsi_value) /\ rsi_value > RSI_ALERT_THRESHOLD /\ current_price # 0
    THEN IF \/ symbol \notin DOMAIN tracker
            \/ (t - tracker[symbol].timestamp) > STALE_SIGNAL_LOOKBACK_HOURS * 3600
         THEN DictSet(tracker, symbol, [peak_price |-> current_price, timestamp |-> t])
         ELSE DictSet(tracker, symbol, [peak_price |-> current_price, timestamp |-> t])
    ELSE tracker
peak_tracker_after(tracker, symbol, rsi_value, current_price, t) ==
    IF IsNumeric(rsi_value) /\ rsi_value > RSI_ALERT_THRESHOLD /\ current_price # 0
    THEN IF \/ symbol \notin DOMAIN tracker
            \/ (t - tracker[symbol].timestamp) > STALE_SIGNAL_LOOKBACK_HOURS * 3600
         THEN DictSet(tracker, symbol, [peak_price |-> current_price, timestamp |-> t])
         ELSE IF current_price > tracker[symbol].peak_price
              THEN DictSet(tracker, symbol,
                           [peak_price |-> current_price, timestamp |-> t])
              ELSE tracker
    ELSE tracker

\* update_rsi_value, lines 144-160, called at most max times in a run
UpdateRsiWithin(max, s, v) ==
    /\ CallWithin(max)
    /\ Len(event_queue) < MaxQueue
    /\ rsi_data' = [rsi_data EXCEPT ![s] = v]
    /\ rsi_peak_tracker' = peak_tracker_after(rsi_peak_tracker, s, v, coin_data[s], now)
    /\ event_queue' = Append(event_queue, EvRsi(s, v))
    /\ obs' = NoObs
    /\ UNCHANGED <<timeVars, coin_changes, change_24h, coin_status, snapshot, symbols_to_monitor, bus, liveVars,
                   coin_data,
                   active_trades, cooldowned_coins, portfolio,
                   global_stats, controls, alert_log, last_trade_execution_time,
                   pause_timers, dbVars, thr, mon, histVars>>

UpdateRsi(s, v) == UpdateRsiWithin(MaxCalls, s, v)

UpdateRsiValue == \E s \in Symbols : \E v \in RsiInputs(s) : UpdateRsi(s, v)

\* POST /toggle-control
ToggleInputs == {<<"all", "resume">>, <<"trade_execution_enabled", "pause">>,
                 <<"trade_execution_enabled", "resume">>,
                 <<"global_pause_active", "pause">>, <<"global_pause_active", "resume">>}

ToggleControlWithin(max, inputs) ==
    /\ CallWithin(max)
    /\ \E input \in inputs :
        LET name == input[1]
            action == input[2]
        IN
          /\ toggle_control(name, action)
          /\ obs' = [Obs("toggle_control", name, "-", TRUE, action)
                        EXCEPT !.flag = controls.global_pause_active]
    /\ UNCHANGED <<timeVars, scanVars, coin_data, rsi_data, active_trades, cooldowned_coins,
                   portfolio, global_stats, alert_log, last_trade_execution_time,
                   pause_timers, dbVars, thr, mon, histVars>>

ToggleControlWith(inputs) == ToggleControlWithin(MaxCalls, inputs)

ToggleControl == ToggleControlWith(ToggleInputs)

\* activate_global_pause called on the store
ActivateGlobalPauseWithin(max) ==
    /\ CallWithin(max)
    /\ \E n \in {1} :
          /\ activate_global_pause(n)
          /\ obs' = [Obs("activate_global_pause", "-", "-", ~controls.global_pause_active, "-")
                        EXCEPT !.n = n]
    /\ UNCHANGED <<timeVars, scanVars, coin_data, rsi_data, active_trades, cooldowned_coins,
                   portfolio, global_stats, alert_log, last_trade_execution_time,
                   dbVars, thr, mon, histVars>>

ActivateGlobalPause == ActivateGlobalPauseWithin(MaxCalls)

\* the threading.Timer started by activate_global_pause runs lift_global_pause
TimerLift ==
    /\ \E i \in 1..Len(pause_timers) :
          /\ now >= pause_timers[i]
          /\ pause_timers' = SubSeq(pause_timers, 1, i - 1) \o
                              SubSeq(pause_timers, i + 1, Len(pause_timers))
    /\ lift_global_pause
    /\ obs' = [Obs("lift_global_pause", "-", "timer", controls.global_pause_active, "-")
                  EXCEPT !.flag = controls.trade_execution_enabled]
    /\ UNCHANGED <<timeVars, scanVars, calls, coin_data, rsi_data, active_trades, cooldowned_coins,
                   portfolio, global_stats, alert_log, last_trade_execution_time,
                   dbVars, thr, mon, histVars>>

\* check_for_global_pause, lines 330-355
CheckForGlobalPause ==
    /\ Call
    /\ LET losses == check_for_global_pause_losses
       IN  /\ IF losses # NONE /\ losses >= LOSS_TRADES_LIMIT_24H
              THEN activate_global_pause(losses)
              ELSE UNCHANGED <<controls, event_queue, pause_timers>>
           /\ obs' = [Obs("check_for_global_pause", "-", "-", losses # NONE, "-")
                         EXCEPT !.flag = controls.global_pause_active,
                                !.n = Cardinality({r \in db_trades :
                                                      /\ r.status = "Closed"
                                                      /\ r.timestamp > now - 24 * 3600
                                                      /\ r.has_pnl
                                                      /\ r.pnl_usdt < 0})]
    /\ UNCHANGED <<timeVars, scanVars, coin_data, rsi_data, active_trades, cooldowned_coins,
                   portfolio, global_stats, alert_log, last_trade_execution_time,
                   dbVars, thr, mon, histVars>>

\* POST /set-cooldown
SetCooldown ==
    /\ Call
    /\ Len(event_queue) < MaxQueue
    /\ \E s \in {"X"}, hours \in {1} :
          /\ event_queue' = Append(event_queue, EvAddCooldown(s, "Manual Add", now + hours * 3600))
          /\ close_cooldown_until' = [close_cooldown_until EXCEPT ![s] = 0]
    /\ obs' = NoObs
    /\ UNCHANGED <<timeVars, scanVars, storeVars, dbVars, thr, mon, last_engine_open, opened_events>>

\* POST /remove-cooldown/<symbol>
RemoveCooldown ==
    /\ Call
    /\ Len(event_queue) < MaxQueue
    /\ \E s \in {"X"} :
          /\ event_queue' = Append(event_queue, EvRemoveCooldown(s))
          /\ close_cooldown_until' = [close_cooldown_until EXCEPT ![s] = 0]
    /\ obs' = NoObs
    /\ UNCHANGED <<timeVars, scanVars, storeVars, dbVars, thr, mon, last_engine_open, opened_events>>

\* restore_live_trade called on the store, as sync_open_positions (lines
\* 233-258) does for an exchange position with an 'Open' database row.  That
\* is the method's only caller and belongs to the start-up synchronisation,
\* so the call comes before every other external call.
RestoreLiveTrade ==
    /\ calls = 0
    /\ Call
    /\ \E s \in {"X"} :
          restore_live_trade(s, 100, Cents(TRADE_AMOUNT_FIXED_USDT), LEVERAGE, 0, NONE)
    /\ UNCHANGED <<timeVars, scanVars, coin_data, rsi_data, cooldowned_coins, portfolio,
                   global_stats, controls, alert_log, last_trade_execution_time,
                   pause_timers, event_queue, dbVars, thr, mon, histVars>>
\* ---------------------------------------------------------- EventBus
\* threads process_events starts for an event: one per subscriber whose
\* handler touches the state modelled here.  handle_rsi_update returns at
\* line 355 for a sample that is not a number.
Spawned(e) ==
    CASE e.type = "STATE_UPDATED_RSI" /\ IsNumeric(e.rsi) ->
            <<[IdleThread EXCEPT !.kind = "handle_rsi_update", !.pc = "check",
                                 !.sym = e.sym, !.rsi = e.rsi]>>
      [] e.type = "ADD_TO_COOLDOWN" ->
            <<[IdleThread EXCEPT !.kind = "handle_add_to_cooldown", !.pc = "run",
                                 !.sym = e.sym, !.reason = e.reason,
                                 !.end_time = e.end_time]>>
      [] e.type = "REMOVE_FROM_COOLDOWN" ->
            <<[IdleThread EXCEPT !.kind = "handle_remove_from_cooldown", !.pc = "run",
                                 !.sym = e.sym]>>
      [] OTHER -> <<>>

\* process_events, lines 23-40: take the oldest event, start its handlers
ProcessEventsWith(handlers(_)) ==
    /\ event_queue # <<>>
    /\ LET e == Head(event_queue)
           new == handlers(e)
       IN  /\ Len(new) <= Cardinality(FreeSlots)
           /\ thr' = IF new = <<>> THEN thr ELSE [thr EXCEPT ![FirstFree] = new[1]]
    /\ event_queue' = Tail(event_queue)
    /\ obs' = NoObs
    /\ UNCHANGED <<timeVars, scanVars, calls, storeVars, dbVars, mon, histVars>>

ProcessEvents == ProcessEventsWith(Spawned)

\* handle_add_to_cooldown, lines 259-276
HandleAddToCooldown(t) ==
    /\ thr[t].kind = "handle_add_to_cooldown"
    /\ cooldowned_coins' = DictSet(cooldowned_coins, thr[t].sym,
                                   [reason |-> thr[t].reason, end_time |-> thr[t].end_time])
    /\ thr' = [thr EXCEPT ![t] = IdleThread]
    /\ obs' = Obs("handle_add_to_cooldown", thr[t].sym, "-", TRUE, thr[t].reason)
    /\ UNCHANGED <<timeVars, scanVars, calls, coin_data, rsi_data, active_trades, portfolio,
                   global_stats, controls, alert_log, last_trade_execution_time,
                   pause_timers, event_queue, dbVars, mon, histVars>>

\* handle_remove_from_cooldown, lines 278-287
HandleRemoveFromCooldown(t) ==
    /\ thr[t].kind = "handle_remove_from_cooldown"
    /\ cooldowned_coins' = DictPop(cooldowned_coins, thr[t].sym)
    /\ thr' = [thr EXCEPT ![t] = IdleThread]
    /\ obs' = Obs("handle_remove_from_cooldown", thr[t].sym, "-", TRUE, "-")
    /\ UNCHANGED <<timeVars, scanVars, calls, coin_data, rsi_data, active_trades, portfolio,
                   global_stats, controls, alert_log, last_trade_execution_time,
                   pause_timers, event_queue, dbVars, mon, histVars>>

\* ------------------------------------------------- TradingService, entry
\* handle_rsi_update, lines 357-360: first critical section
RsiCheck(t) ==
    /\ thr[t].kind = "handle_rsi_update" /\ thr[t].pc = "check"
    /\ thr' = [thr EXCEPT ![t].pc = "decide",
                          ![t].in_trade = IsOpen(thr[t].sym),
                          ![t].on_cd = IsOnCooldown(thr[t].sym)]
    /\ obs' = NoObs
    /\ UNCHANGED <<timeVars, scanVars, calls, storeVars, event_queue, dbVars, mon, histVars>>

\* handle_rsi_update, line 362
RsiDecide(t) ==
    /\ thr[t].kind = "handle_rsi_update" /\ thr[t].pc = "decide"
    /\ LET go == /\ can_open_new_trade
                 /\ thr[t].rsi > RSI_ALERT_THRESHOLD
                 /\ ~thr[t].in_trade
                 /\ ~thr[t].on_cd
       IN  /\ thr' = [thr EXCEPT ![t] = IF go THEN [@ EXCEPT !.pc = "margin"] ELSE IdleThread]
           /\ obs' = [Obs("can_open_new_trade", thr[t].sym, "Bot", can_open_new_trade, "-")
                         EXCEPT !.flag = go]
    /\ UNCHANGED <<timeVars, scanVars, calls, storeVars, event_queue, dbVars, mon, histVars>>

RsiMarginWithoutBalance(live_trading_enabled, t) ==
    /\ thr[t].kind = "handle_rsi_update" /\ thr[t].pc = "margin"
    /\ thr' = [thr EXCEPT ![t] =
                  IF coin_data[thr[t].sym] = 0 THEN IdleThread
                  ELSE [@ EXCEPT !.pc = IF live_trading_enabled THEN "execute" ELSE "alert",
                                 !.price = coin_data[thr[t].sym],
                                 !.amount = Cents(TRADE_AMOUNT_FIXED_USDT)]]
    /\ obs' = NoObs
    /\ UNCHANGED <<timeVars, scanVars, calls, storeVars, event_queue, dbVars, mon, histVars>>
\* handle_rsi_update, lines 363-374: second critical section, and the branch
\* of line 379 on config.LIVE_TRADING_ENABLED
RsiMarginWith(live_trading_enabled, t) ==
    /\ thr[t].kind = "handle_rsi_update" /\ thr[t].pc = "margin"
    /\ LET price == coin_data[thr[t].sym]
           trade_amount == IF TRADE_AMOUNT_TYPE = "fixed_usdt"
                           THEN Cents(TRADE_AMOUNT_FIXED_USDT)
                           ELSE (portfolio.balance * TRADE_AMOUNT_PERCENTAGE) \div 100
           required_margin == Max(trade_amount, MIN_MARGIN_CENTS)
       IN  thr' = [thr EXCEPT ![t] =
                      IF price = 0 \/ portfolio.balance < required_margin
                      THEN IdleThread
                      ELSE [@ EXCEPT !.pc = IF live_trading_enabled THEN "execute"
                                            ELSE "alert",
                                     !.price = price, !.amount = trade_amount]]
    /\ obs' = NoObs
    /\ UNCHANGED <<timeVars, scanVars, calls, storeVars, event_queue, dbVars, mon, histVars>>

RsiMargin(t) == RsiMarginWith(LIVE_TRADING_ENABLED, t)

\* get_next_alert_number, lines 196-214, called at line 394 (handle_rsi_update)
\* or line 218 of server.py (manual_trade)
GetNextAlertNumber(t) ==
    /\ thr[t].pc = "alert"
    /\ alert_counter' = alert_counter + 1
    /\ thr' = [thr EXCEPT ![t].pc = "open", ![t].alert = alert_counter + 1]
    /\ obs' = NoObs
    /\ UNCHANGED <<timeVars, scanVars, calls, storeVars, event_queue, db_trades, mon, histVars>>

\* the open_trade call of handle_rsi_update (line 395, source "Bot", no
\* trade_amount; line 383, source "Live", with the trade_amount of the order)
\* or of manual_trade (server.py line 219, source "Manual")
ThreadOpenTrade(t) ==
    /\ thr[t].pc = "open"
    /\ LET source == IF thr[t].kind = "manual_trade" THEN "Manual" ELSE thr[t].source
           amount == IF IsLive(source) THEN thr[t].amount ELSE NONE
       IN  /\ open_trade(thr[t].sym, thr[t].price, thr[t].rsi, source, thr[t].alert, amount)
           /\ thr' = [thr EXCEPT ![t] =
                        IF open_trade_outcome(thr[t].sym, source, amount) = "ok"
                        THEN [@ EXCEPT !.pc = "open_pub"]
                        ELSE IdleThread]
    /\ UNCHANGED <<timeVars, scanVars, calls, coin_data, rsi_data, cooldowned_coins, portfolio,
                   global_stats, controls, pause_timers, event_queue, dbVars, mon,
                   close_cooldown_until, opened_events>>

\* open_trade, lines 188-189, after the lock is released: the event carries a
\* copy of what active_trades holds for the symbol now; a symbol closed in
\* between raises KeyError and the caller's thread ends without the event
ThreadOpenPublish(t) ==
    /\ thr[t].pc = "open_pub"
    /\ event_queue' =
          IF IsOpen(thr[t].sym)
          THEN Append(event_queue, EvTradeOpened(active_trades[thr[t].sym]))
          ELSE event_queue
    /\ opened_events' =
          IF IsOpen(thr[t].sym)
          THEN [opened_events EXCEPT ![thr[t].sym] = @ + 1]
          ELSE opened_events
    /\ thr' = [thr EXCEPT ![t] = IdleThread]
    /\ obs' = Obs("open_trade_return", thr[t].sym, "-", IsOpen(thr[t].sym), "-")
    /\ UNCHANGED <<timeVars, scanVars, calls, storeVars, dbVars, mon, last_engine_open,
                   close_cooldown_until>>

\* ------------------------------------------------------- web requests
\* POST /manual-trade, server.py lines 205-217
ManualTrade ==
    /\ Call
    /\ FreeSlots # {}
    /\ \E s \in {"X"}, entry_price \in {100} :
          thr' = IF IsOpen(s) THEN thr
                 ELSE [thr EXCEPT ![FirstFree] =
                         [IdleThread EXCEPT !.kind = "manual_trade", !.pc = "alert",
                                            !.sym = s, !.price = entry_price,
                                            !.rsi = IF rsi_data[s] = NONE THEN 0
                                                    ELSE rsi_data[s]]]
    /\ obs' = NoObs
    /\ UNCHANGED <<timeVars, scanVars, storeVars, event_queue, dbVars, mon, histVars>>

\* POST /manual-close/<symbol>, server.py lines 190-201.  A Live trade is
\* closed inside the endpoint's own lock block; a paper trade is closed by a
\* separate close_trade call after the block.
ManualCloseWithin(max) ==
    /\ CallWithin(max)
    /\ FreeSlots # {}
    /\ \E s \in Symbols :
          /\ IsOpen(s)
          /\ IF IsLive(active_trades[s].source)
             THEN /\ close_trade(s, "Manual Close (Live)", 0, 0, TRUE)
                  /\ UNCHANGED thr
             ELSE /\ thr' = [thr EXCEPT ![FirstFree] =
                               [IdleThread EXCEPT !.kind = "manual_close", !.pc = "close",
                                                  !.sym = s, !.reason = "Manual Close",
                                                  !.price = IF coin_data[s] # 0 THEN coin_data[s]
                                                            ELSE active_trades[s].entry_price,
                                                  !.rsi = IF rsi_data[s] = NONE THEN 0
                                                          ELSE rsi_data[s]]]
                  /\ obs' = NoObs
                  /\ UNCHANGED <<active_trades, portfolio, global_stats, event_queue,
                                 alert_log, close_cooldown_until>>
    /\ UNCHANGED <<timeVars, scanVars, coin_data, rsi_data, cooldowned_coins, controls,
                   last_trade_execution_time, pause_timers, dbVars, mon, last_engine_open,
                   opened_events>>

ManualClose == ManualCloseWithin(MaxCalls)

\* the close_trade call of manual_close (server.py line 202)
ThreadCloseTrade(t) ==
    /\ thr[t].pc = "close"
    /\ close_trade(thr[t].sym, thr[t].reason, thr[t].price, thr[t].rsi, FALSE)
    /\ thr' = [thr EXCEPT ![t] =
                 IF close_trade_found(thr[t].sym)
                 THEN [@ EXCEPT !.pc = "close_pub",
                                !.trade = IF IsOpen(thr[t].sym) THEN active_trades[thr[t].sym]
                                          ELSE NoTrade,
                                !.new_balance = portfolio'.balance]
                 ELSE IdleThread]
    /\ UNCHANGED <<timeVars, scanVars, calls, coin_data, rsi_data, cooldowned_coins, controls,
                   last_trade_execution_time, pause_timers, dbVars, mon, last_engine_open,
                   opened_events>>

\* close_trade, lines 216-221
ThreadClosePublish(t) ==
    /\ thr[t].pc = "close_pub"
    /\ event_queue' = event_queue \o
          close_trade_events(thr[t].trade, thr[t].reason, thr[t].price, thr[t].rsi)
    /\ thr' = [thr EXCEPT ![t] = IdleThread]
    /\ obs' = NoObs
    /\ UNCHANGED <<timeVars, scanVars, calls, storeVars, dbVars, mon, histVars>>
\* ------------------------------------------- TradingService, paper monitor
price_change_percent_long(entry_price, current_price) ==
    ((current_price - entry_price) * 100 * 100) \div entry_price

\* _monitor_paper_trade, lines 341-343, in hundredths
price_change_percent(entry_price, current_price) ==
    ((entry_price - current_price) * 100 * 100) \div entry_price
paper_pnl_percent(entry_price, current_price, leverage) ==
    price_change_percent(entry_price, current_price) * leverage
paper_pnl_usdt(entry_price, current_price, trade_amount, leverage) ==
    ((trade_amount * leverage) * price_change_percent(entry_price, current_price))
        \div (100 * 100)

PaperTrades == {s \in DOMAIN active_trades : ~IsLive(active_trades[s].source)}

MonNext(m, s) ==
    LET rest == m.todo \ {s}
    IN  [MonIdle EXCEPT !.pc = IF rest = {} THEN "wait" ELSE "iter",
                        !.todo = rest,
                        !.snap = [x \in rest |-> m.snap[x]]]

\* run, lines 280-288: the sweep copies the paper trades under the lock.  The
\* restored symbols without a market snapshot return at line 340 of
\* _monitor_paper_trade; their turns are not separate steps.
MonSnapshot ==
    /\ mon.pc = "wait"
    /\ controls.trading_enabled
    /\ PaperTrades \cap Symbols # {}
    /\ mon' = [MonIdle EXCEPT !.pc = "iter",
                              !.todo = PaperTrades \cap Symbols,
                              !.snap = [x \in PaperTrades \cap Symbols |-> active_trades[x]]]
    /\ obs' = NoObs
    /\ UNCHANGED <<timeVars, scanVars, calls, storeVars, event_queue, dbVars, thr, histVars>>

\* _monitor_paper_trade, lines 337-343
MonRead ==
    /\ mon.pc = "iter"
    /\ \E s \in mon.todo :
          LET trade == mon.snap[s]
              current_price == coin_data[s]
          IN  mon' = IF current_price = 0 THEN MonNext(mon, s)
                     ELSE [mon EXCEPT
                             !.pc = "update", !.sym = s, !.price = current_price,
                             !.rsi = rsi_data[s],
                             !.pnl_percent = paper_pnl_percent(trade.entry_price,
                                                current_price, trade.leverage),
                             !.pnl_usdt = paper_pnl_usdt(trade.entry_price, current_price,
                                                trade.trade_amount, trade.leverage)]
    /\ obs' = NoObs
    /\ UNCHANGED <<timeVars, scanVars, calls, storeVars, event_queue, dbVars, thr, histVars>>

\* _monitor_paper_trade, line 344
MonUpdate ==
    /\ mon.pc = "update"
    /\ active_trades' = update_trade_pnl(mon.sym, mon.pnl_percent, mon.pnl_usdt, mon.rsi)
    /\ mon' = [mon EXCEPT !.pc = "check"]
    /\ obs' = [Obs("update_trade_pnl", mon.sym, "-", IsOpen(mon.sym), "-")
                  EXCEPT !.n = mon.pnl_percent]
    /\ UNCHANGED <<timeVars, scanVars, calls, coin_data, rsi_data, cooldowned_coins, portfolio,
                   global_stats, controls, alert_log, last_trade_execution_time,
                   pause_timers, event_queue, dbVars, thr, histVars>>

paper_exit_reason_indicator_first(pnl_percent, pnl_usdt, current_rsi) ==
    IF IsNumeric(current_rsi) /\ current_rsi <= TRADE_CLOSE_RSI /\ pnl_usdt > 0
    THEN "RSI Close"
    ELSE IF pnl_percent >= Cents(TAKE_PROFIT_PERCENT) THEN "Target Profit"
         ELSE "-"
\* _monitor_paper_trade, lines 346-350: the exit rule
paper_exit_reason(pnl_percent, pnl_usdt, current_rsi) ==
    IF pnl_percent >= Cents(TAKE_PROFIT_PERCENT) THEN "Target Profit"
    ELSE IF IsNumeric(current_rsi) /\ current_rsi <= TRADE_CLOSE_RSI /\ pnl_usdt > 0
         THEN "RSI Close"
         ELSE "-"

\* _monitor_paper_trade, lines 345-351: the pause flag is read without the
\* lock, the exit rule is evaluated, close_trade is called afterwards
MonCheck ==
    /\ mon.pc = "check"
    /\ LET reason == IF controls.global_pause_active THEN "-"
                     ELSE paper_exit_reason(mon.pnl_percent, mon.pnl_usdt, mon.rsi)
       IN  mon' = IF reason = "-" THEN MonNext(mon, mon.sym)
                  ELSE [mon EXCEPT !.pc = "close", !.reason = reason]
    /\ obs' = NoObs
    /\ UNCHANGED <<timeVars, scanVars, calls, storeVars, event_queue, dbVars, thr, histVars>>

MonClose ==
    /\ mon.pc = "close"
    /\ close_trade(mon.sym, mon.reason, mon.price,
                   IF mon.rsi = NONE THEN 0 ELSE mon.rsi, FALSE)
    /\ mon' = IF close_trade_found(mon.sym)
              THEN [mon EXCEPT !.pc = "close_pub",
                               !.trade = IF IsOpen(mon.sym) THEN active_trades[mon.sym]
                                         ELSE NoTrade]
              ELSE MonNext(mon, mon.sym)
    /\ UNCHANGED <<timeVars, scanVars, calls, coin_data, rsi_data, cooldowned_coins, controls,
                   last_trade_execution_time, pause_timers, dbVars, thr, last_engine_open,
                   opened_events>>

\* close_trade, lines 216-221, called with (current_price, current_rsi or 0)
\* for a target-profit exit and (current_price, current_rsi) otherwise
MonClosePublish ==
    /\ mon.pc = "close_pub"
    /\ event_queue' = event_queue \o
          close_trade_events(mon.trade, mon.reason, mon.price,
                             IF mon.rsi = NONE THEN 0 ELSE mon.rsi)
    /\ mon' = MonNext(mon, mon.sym)
    /\ obs' = NoObs
    /\ UNCHANGED <<timeVars, scanVars, calls, storeVars, dbVars, thr, histVars>>

\* ---------------------------------------------------------------- Next
Next ==
    \/ Tick
    \/ UpdateMarketData
    \/ UpdateRsiValue
    \/ ToggleControl
    \/ ActivateGlobalPause
    \/ TimerLift
    \/ CheckForGlobalPause
    \/ SetCooldown
    \/ RemoveCooldown
    \/ RestoreLiveTrade
    \/ ManualTrade
    \/ ManualClose
    \/ ProcessEvents
    \/ \E t \in Threads : HandleAddToCooldown(t)
    \/ \E t \in Threads : HandleRemoveFromCooldown(t)
    \/ \E t \in Threads : RsiCheck(t)
    \/ \E t \in Threads : RsiDecide(t)
    \/ \E t \in Threads : RsiMargin(t)
    \/ \E t \in Threads : GetNextAlertNumber(t)
    \/ \E t \in Threads : ThreadOpenTrade(t)
    \/ \E t \in Threads : ThreadOpenPublish(t)
    \/ \E t \in Threads : ThreadCloseTrade(t)
    \/ \E t \in Threads : ThreadClosePublish(t)
    \/ MonSnapshot
    \/ MonRead
    \/ MonUpdate
    \/ MonCheck
    \/ MonClose
    \/ MonClosePublish

Spec == Init /\ [][Next]_vars

\* ------------------------------------------------------ the watch list
\* number of coins of the bag c whose change is at least v
RECURSIVE CoinsIn(_, _)
CoinsIn(c, vs) ==
    IF vs = {} THEN 0
    ELSE LET v == CHOOSE w \in vs : TRUE IN c[v] + CoinsIn(c, vs \ {v})

CoinsAtLeast(c, v) == CoinsIn(c, {w \in ChangeValues : w >= v})

\* len(hot_coins_above_base)
hot_coins_above_base(c) == CoinsAtLeast(c, RSI_HOT_COIN_THRESHOLD)

\* all_coins_sorted[r - 1]['change_24h']: the change of the coin at rank r of
\* the descending order, the largest v that at least r coins reach
ChangeAtRank(c, r) ==
    CHOOSE v \in ChangeValues :
        /\ CoinsAtLeast(c, v) >= r
        /\ \A w \in ChangeValues : w > v => CoinsAtLeast(c, w) < r

dynamic_threshold(c) ==
    IF hot_coins_above_base(c) > MAX_COINS_TO_MONITOR
    THEN ChangeAtRank(c, MAX_COINS_TO_MONITOR)
    ELSE RSI_HOT_COIN_THRESHOLD

final_hot_coins(c) ==
    [v \in ChangeValues |->
        IF v >= RSI_HOT_COIN_THRESHOLD /\ v >= dynamic_threshold(c) THEN c[v] ELSE 0]

botVars == <<timeVars, calls, storeVars, event_queue, dbVars, thr, mon, obs, histVars>>

\* line 113: coin_data.get(s, {}).get('change_24h', 0), the sort key
sort_key(s) == IF s \in Symbols /\ coin_data[s] # 0 THEN change_24h[s] ELSE 0

symbols_set_without_cooldowns(hot) == DOMAIN active_trades \cup hot
\* line 111: the union, as a set
symbols_set(hot) == DOMAIN active_trades \cup DOMAIN cooldowned_coins \cup hot

\* sorted(list(set), key, reverse=True): the set in an order of descending
\* keys; among equal keys the order is that of the set's iteration
SortedDescending(set) ==
    {q \in [1..Cardinality(set) -> set] :
        /\ \A x \in set : \E i \in DOMAIN q : q[i] = x
        /\ \A i, j \in DOMAIN q : i < j => sort_key(q[i]) >= sort_key(q[j])}

\* the scanner asks which symbols to watch; of the coins that are not listed
\* the result keeps, per change value, how many are in it
GetSymbolsToMonitor ==
    /\ LET threshold == dynamic_threshold(coin_changes)
           hot == {s \in Symbols : /\ coin_data[s] # 0
                                   /\ change_24h[s] >= RSI_HOT_COIN_THRESHOLD
                                   /\ change_24h[s] >= threshold}
       IN  \E q \in SortedDescending(symbols_set(hot)) :
              symbols_to_monitor' =
                 [called |-> TRUE,
                  hot_coins_above_base |-> hot_coins_above_base(coin_changes),
                  dynamic_threshold |-> threshold,
                  final_hot_coins |-> final_hot_coins(coin_changes),
                  symbols |-> q]
    /\ UNCHANGED <<coin_changes, change_24h, coin_status, snapshot, bus, rsi_peak_tracker,
                   liveVars, botVars>>

\* a market-data batch moves some coins from one change value to another
UpdateChange24h ==
    /\ \E v \in ChangeValues : \E w \in ChangeValues \ {v} : \E n \in BatchSizes :
          /\ n <= coin_changes[v] - Cardinality({s \in Symbols : coin_data[s] # 0
                                                                    /\ change_24h[s] = v})
          /\ coin_changes[w] + n <= MaxCoinsPerChange
          /\ coin_changes' = [coin_changes EXCEPT ![v] = @ - n, ![w] = @ + n]
    /\ UNCHANGED <<change_24h, coin_status, snapshot, symbols_to_monitor, bus,
                   rsi_peak_tracker, liveVars, botVars>>

\* the bag counts the listed symbols that have an entry
ListedCounted ==
    \A v \in ChangeValues :
       Cardinality({s \in Symbols : coin_data[s] # 0 /\ change_24h[s] = v}) <= coin_changes[v]

InitScanner ==
    /\ InitBot("armed")
    /\ coin_changes \in [ChangeValues -> CoinCounts]
    /\ ListedCounted

NextScanner ==
    \/ GetSymbolsToMonitor
    \/ UpdateChange24h

SpecScanner == InitScanner /\ [][NextScanner]_vars

\* ------------------------------------------------ closing on request
\* Two paper trades restored from an earlier run, both below water, with the
\* monitor running and the operator closing them from the web page.
InitClosing ==
    /\ InitBot("two_underwater")
    /\ coin_changes = [v \in ChangeValues |->
                          IF v = RSI_HOT_COIN_THRESHOLD THEN Cardinality(Symbols) ELSE 0]

NextClosing ==
    \/ Tick
    \/ ManualClose
    \/ ProcessEvents
    \/ \E t \in Threads : HandleAddToCooldown(t)
    \/ \E t \in Threads : ThreadCloseTrade(t)
    \/ \E t \in Threads : ThreadClosePublish(t)
    \/ MonSnapshot
    \/ MonRead
    \/ MonUpdate
    \/ MonCheck

SpecClosing == InitClosing /\ [][NextClosing]_vars

\* ------------------------------------------------------ the event bus
\* The bus with all its subscribers, whatever they do: an event type with
\* three subscribers, one with one, one with none (subscribe calls of
\* trading_service.py 272, email_service.py 112 and 114, database_manager.py
\* 141), in the order the services are constructed.
BusTypes == {"TRADE_OPENED", "GLOBAL_PAUSE_TRIGGERED", "GLOBAL_PAUSE_LIFTED"}

subscribers(event_type) ==
    CASE event_type = "TRADE_OPENED" ->
            <<"DatabaseManager.handle_trade_opened", "TradingService._handle_trade_opened",
              "EmailService.handle_trade_opened">>
      [] event_type = "GLOBAL_PAUSE_TRIGGERED" -> <<"EmailService.handle_global_pause">>
      [] OTHER -> <<>>

\* event_queue.get(): the oldest event of the queue
queue_get_newest(q) == q[Len(q)]
queue_get(q) == Head(q)

queue_without(q, e) ==
    IF e = Head(q) THEN Tail(q) ELSE SubSeq(q, 1, Len(q) - 1)

\* Thread(target=callback).start() returns once the thread is started: the
\* loop never waits for a callback it started
start_returns_after_callbacks(started) == \A i \in 1..Len(started) : started[i].st # "running"
start_returns(started) == TRUE

otherBusVars == <<timeVars, calls, storeVars, dbVars, thr, mon, obs, histVars,
                  coin_changes, change_24h, coin_status, snapshot, symbols_to_monitor, rsi_peak_tracker, liveVars>>

\* publish, lines 18-21
BusPublish ==
    /\ Len(bus.published) < MaxBusEvents
    /\ \E ty \in BusTypes :
          /\ event_queue' = Append(event_queue, Event(ty))
          /\ bus' = [bus EXCEPT !.published = Append(@, ty)]
    /\ UNCHANGED otherBusVars

\* process_events, lines 25-36: one turn of the loop
BusDispatch ==
    /\ event_queue # <<>>
    /\ start_returns(bus.started)
    /\ LET event == queue_get(event_queue)
           cbs == subscribers(event.type)
           k == Len(bus.dispatched) + 1
       IN  /\ event_queue' = queue_without(event_queue, event)
           /\ bus' = [bus EXCEPT
                       !.dispatched = Append(@, event.type),
                       !.started = @ \o [i \in 1..Len(cbs) |->
                                           [k |-> k, callback |-> cbs[i], st |-> "running"]]]
    /\ UNCHANGED otherBusVars

\* a callback returns, or raises in its own thread; one that does neither
\* stays running
BusHandlerEnds ==
    /\ \E i \in 1..Len(bus.started) : \E st \in {"returned", "raised"} :
          /\ bus.started[i].st = "running"
          /\ bus' = [bus EXCEPT !.started[i].st = st]
    /\ UNCHANGED <<event_queue, otherBusVars>>

NextBus ==
    \/ BusPublish
    \/ BusDispatch
    \/ BusHandlerEnds

\* the services are up, nothing is published yet
InitBus ==
    /\ InitBot("armed")
    /\ coin_changes = [v \in ChangeValues |->
                          IF v = RSI_HOT_COIN_THRESHOLD THEN Cardinality(Symbols) ELSE 0]

SpecBus == InitBus /\ [][NextBus]_vars

\* the dispatch loop is a thread of its own that keeps being scheduled;
\* nothing is assumed of publishers and callbacks
SpecBusFair == SpecBus /\ WF_vars(BusDispatch)

\* ------------------------------------------------- the control panel
\* every request POST /toggle-control can carry: each flag, the reserved name
\* "all", a name that is no control, with either action
AllToggleInputs == (ControlNames \cup {"all", "no_such_control"}) \X {"pause", "resume"}

ToggleAnyControl == ToggleControlWith(AllToggleInputs)

NextControls ==
    \/ ToggleAnyControl
    \/ ActivateGlobalPause
    \/ ProcessEvents

SpecControls == Init /\ [][NextControls]_vars

\* ------------------------------------------------- the circuit breaker
\* time passes until the next started timer is due
TickToDeadline ==
    /\ \E i \in 1..Len(pause_timers) :
          /\ pause_timers[i] > now
          /\ \A j \in 1..Len(pause_timers) :
                pause_timers[j] > now => pause_timers[i] <= pause_timers[j]
          /\ now' = pause_timers[i]
    /\ obs' = NoObs
    /\ UNCHANGED <<ticks, scanVars, calls, storeVars, event_queue, dbVars, thr, mon, histVars>>

\* The breaker with the operator and the clock: activations, control
\* toggles, the bus, time passing, the timers.
NextPause ==
    \/ Tick
    \/ TickToDeadline
    \/ ActivateGlobalPause
    \/ ToggleControl
    \/ TimerLift
    \/ ProcessEvents

\* Time does not stop short of a started timer's deadline, and a timer that is
\* due runs its callback; nothing is assumed of the operator.
SpecPause ==
    /\ Init
    /\ [][NextPause]_vars
    /\ WF_vars(TickToDeadline)
    /\ WF_vars(TimerLift)

\* ------------------------------------------------- the engine on its own
\* The engine with one symbol's indicator stream and nothing else from
\* outside: controls resumed, no listed symbol open, samples for Y arrive,
\* time passes, the bus dispatches, the handlers and the monitor run.
InitEngine ==
    /\ Init
    /\ controls.trade_execution_enabled
    /\ DOMAIN active_trades \cap Symbols = {}

UpdateRsiOfY == \E v \in RsiInputs("Y") : UpdateRsi("Y", v)

NextEngine ==
    \/ Tick
    \/ UpdateRsiOfY
    \/ ProcessEvents
    \/ \E t \in Threads : RsiCheck(t)
    \/ \E t \in Threads : RsiDecide(t)
    \/ \E t \in Threads : RsiMargin(t)
    \/ \E t \in Threads : GetNextAlertNumber(t)
    \/ \E t \in Threads : ThreadOpenTrade(t)
    \/ \E t \in Threads : ThreadOpenPublish(t)
    \/ MonSnapshot
    \/ MonRead
    \/ MonUpdate
    \/ MonCheck

SpecEngine == InitEngine /\ [][NextEngine]_vars

\* ============================================================ properties
\* C1: at most one trade record exists per symbol: an open_trade on a symbol
\* that is already open returns False, leaves that symbol's record, the
\* last-open time, the alert log and the event queue as they were, and its
\* caller does not go on to publish TRADE_OPENED.
C1_DuplicateOpenRejected ==
    [][(obs'.op = "open_trade" /\ obs'.flag) =>
          /\ ~obs'.ok
          /\ active_trades' = active_trades
          /\ last_trade_execution_time' = last_trade_execution_time
          /\ alert_log' = alert_log
          /\ event_queue' = event_queue
          /\ \A t \in Threads : thr[t].pc = "open" => thr'[t].pc # "open_pub"]_vars

\* an open_trade has just been refused for a symbol that was open
C1_Witness ==
    /\ obs.op = "open_trade" /\ obs.flag /\ ~obs.ok
    /\ IsOpen(obs.sym)

\* C2: immediately after any successful open_trade the number of open trades
\* is at most MAX_OPEN_TRADES, whatever the interleaving of indicator handlers
\* and manual opens.
C2_OpenCountWithinLimit ==
    (obs.op = "open_trade" /\ obs.ok) => OpenCount <= MAX_OPEN_TRADES

\* C3: no open_trade for a symbol succeeds at a time at which the symbol has
\* a cooldown entry whose end_time lies ahead.
C3_NoOpenDuringCooldown ==
    (obs.op = "open_trade" /\ obs.ok) => ~IsOnCooldown(obs.sym)

\* C4: once close_trade has closed a trade of a symbol, the engine (source
\* "Bot") opens no trade of that symbol before the cooldown scheduled by that
\* close has run out, unless a cooldown was set or removed by hand since.
C4_NoEngineReopenBeforeCooldownEnd ==
    (obs.op = "open_trade" /\ obs.ok /\ obs.src = "Bot")
        => now >= close_cooldown_until[obs.sym]

\* C5: an open_trade of the engine (source "Bot") succeeds only while the
\* global pause is off and trade execution is enabled.
C5_NoEngineOpenWhilePaused ==
    (obs.op = "open_trade" /\ obs.ok /\ obs.src = "Bot")
        => (~controls.global_pause_active /\ controls.trade_execution_enabled)

\* C6: a loss scan that runs while the trades table holds three closed losing
\* trades of the last 24 hours trips the breaker: the global pause is on,
\* trade execution is off, and GLOBAL_PAUSE_TRIGGERED with loss_count =
\* LOSS_TRADES_LIMIT_24H is the event published last.
C6_LossScanTripsBreaker ==
    (obs.op = "check_for_global_pause" /\ obs.n = 3 /\ ~obs.flag)
        => /\ controls.global_pause_active
           /\ ~controls.trade_execution_enabled
           /\ event_queue # <<>>
           /\ event_queue[Len(event_queue)] = EvPauseTriggered(LOSS_TRADES_LIMIT_24H)

\* C7: close_trade on a symbol that is not open changes nothing of the store
\* and publishes nothing. A close_trade that finds the symbol removes its
\* record in the same step and adds exactly that record's pnl_usdt to the
\* balance (nothing for a Live trade); the balance and the statistics change
\* in no other step. Hence two closes of one trade realize its pnl once.
C7_CloseOfClosedIsNoOp ==
    [][/\ (obs'.op = "close_trade" /\ ~obs'.ok) =>
              /\ UNCHANGED <<storeVars, event_queue, dbVars>>
              /\ \A t \in Threads : thr'[t].pc # "close_pub" \/ thr'[t] = thr[t]
              /\ mon'.pc # "close_pub" \/ mon' = mon
       /\ (obs'.op = "close_trade" /\ obs'.ok) =>
              /\ IsOpen(obs'.sym)
              /\ active_trades' = DictPop(active_trades, obs'.sym)
              /\ portfolio'.balance = portfolio.balance +
                    (IF IsLive(active_trades[obs'.sym].source) THEN 0
                     ELSE active_trades[obs'.sym].pnl_usdt)
       /\ (portfolio' # portfolio \/ global_stats' # global_stats) =>
              (obs'.op = "close_trade" /\ obs'.ok)]_vars

\* a close_trade has just returned at once: its symbol was closed before
C7_Witness ==
    /\ obs.op = "close_trade" /\ ~obs.ok
    /\ ~IsOpen(obs.sym)
    /\ \E i \in 1..Len(alert_log) : alert_log[i] = [tag |-> "CLOSE SHORT", sym |-> obs.sym]

\* C8 (as the code has it): for a trade that is not Live, opened at price 100
\* with leverage L, a monitoring tick that reads price 90 records through
\* update_trade_pnl a pnl_percent of 10 x L and a pnl_usdt of trade_amount x L
\* x 10 / 100; close_trade then adds exactly the recorded pnl_usdt to the
\* balance, whatever close price it is given, and publishes ADD_TO_COOLDOWN
\* for the symbol with end_time = now + DEFAULT_COOLDOWN_PERIOD; the handler
\* of that event installs the entry with that end_time.
C8_RoundTripRecorded ==
    [][/\ (obs'.op = "update_trade_pnl" /\ obs'.ok
              /\ mon.snap[mon.sym].entry_price = 100 /\ mon.price = 90) =>
              LET snap == mon.snap[mon.sym]
                  rec == active_trades'[mon.sym]
              IN  /\ rec.pnl_percent = 10 * snap.leverage * 100
                  /\ rec.pnl_usdt = (snap.trade_amount * snap.leverage * 10) \div 100
       /\ (obs'.op = "close_trade" /\ obs'.ok /\ ~IsLive(obs'.src)) =>
              LET rec == active_trades[obs'.sym]
              IN  /\ portfolio'.balance = portfolio.balance + rec.pnl_usdt
                  /\ Len(event_queue') > Len(event_queue)
                  /\ event_queue'[Len(event_queue) + 1] =
                        EvAddCooldown(obs'.sym, obs'.why, now + DEFAULT_COOLDOWN_PERIOD)
       /\ (obs'.op = "handle_add_to_cooldown") =>
              \E t \in Threads :
                  /\ thr[t].kind = "handle_add_to_cooldown" /\ thr'[t] = IdleThread
                  /\ obs'.sym = thr[t].sym
                  /\ obs'.sym \in DOMAIN cooldowned_coins'
                  /\ cooldowned_coins'[obs'.sym].end_time = thr[t].end_time]_vars

\* a trade opened at 100 has just been closed at 90 after the monitor
\* recorded that price: 60 hundredths of a USDT (3 USDT x 2 x 10 %) went to
\* the balance
C8_Witness ==
    /\ obs.op = "close_trade" /\ obs.ok /\ ~IsLive(obs.src)
    /\ obs.trade.entry_price = 100 /\ obs.price = 90
    /\ obs.trade.pnl_percent = 10 * LEVERAGE * 100
    /\ obs.n = (Cents(TRADE_AMOUNT_FIXED_USDT) * LEVERAGE * 10) \div 100
    /\ portfolio.balance = PortfolioFileBalance + obs.n

\* C8 (as specified): a close_trade with close price 90 of a trade that is not
\* Live and was opened at 100 realizes a pnl_percent of 10 x leverage and a
\* pnl_usdt of trade_amount x leverage x 10 / 100, and leaves the symbol with
\* a cooldown entry that has not run out.
C8_RoundTripAsClaimed ==
    (obs.op = "close_trade" /\ obs.ok /\ ~IsLive(obs.src)
        /\ obs.trade.entry_price = 100 /\ obs.price = 90)
        => /\ obs.trade.pnl_percent = 10 * obs.trade.leverage * 100
           /\ obs.n = (obs.trade.trade_amount * obs.trade.leverage * 10) \div 100
           /\ IsOnCooldown(obs.sym)

C10_NoBurstOfEngineOpens ==
    /\ (last_trade_execution_time > 0 /\ now - last_trade_execution_time < 10)
          => ~can_open_new_trade
    /\ (obs.op = "open_trade" /\ obs.ok /\ obs.src = "Bot" /\ obs.n # NONE)
          => now - obs.n >= 10

\* what handle_rsi_update requires of a symbol before it opens a trade
Eligible(s) ==
    /\ ~IsOpen(s)
    /\ ~IsOnCooldown(s)
    /\ can_open_new_trade
    /\ coin_data[s] # 0
    /\ portfolio.balance >= MIN_MARGIN_CENTS

\* no handler thread is alive and no indicator event waits in the queue
EngineQuiet ==
    /\ \A t \in Threads : thr[t].kind = "idle"
    /\ \A i \in 1..Len(event_queue) : event_queue[i].type # "STATE_UPDATED_RSI"

\* C11: with Y eligible when its first sample of 96 arrives, the handling of
\* that sample and of every further sample of Y handled alongside it
\* publishes exactly one TRADE_OPENED for Y: never a second one, and one once
\* all the handlers have ended.
C11_OneOpenedEventPerEligibleSample ==
    /\ rsi_data["Y"] = NONE => Eligible("Y")
    /\ opened_events["Y"] <= 1
    /\ (rsi_data["Y"] = 96 /\ EngineQuiet) => (opened_events["Y"] = 1 /\ IsOpen("Y"))

\* two samples of Y were handled side by side: the second handler's
\* open_trade has just been refused, after the first one's event went out
C11_Witness ==
    /\ obs.op = "open_trade" /\ obs.sym = "Y" /\ obs.flag /\ ~obs.ok
    /\ opened_events["Y"] = 1
    /\ EngineQuiet

HotCount == CoinsIn(symbols_to_monitor.final_hot_coins, ChangeValues)
LowestHot ==
    CHOOSE v \in ChangeValues :
        /\ symbols_to_monitor.final_hot_coins[v] > 0
        /\ \A w \in ChangeValues : symbols_to_monitor.final_hot_coins[w] > 0 => v <= w

\* C12 (as specified): when more than 100 coins reach the base threshold, the
\* hot set of get_symbols_to_monitor has at most 100 symbols and its lowest
\* change equals the raised threshold.
C12_HotSetCapped ==
    (symbols_to_monitor.called
       /\ symbols_to_monitor.hot_coins_above_base > MAX_COINS_TO_MONITOR) =>
        /\ HotCount <= MAX_COINS_TO_MONITOR
        /\ LowestHot = symbols_to_monitor.dynamic_threshold

\* an open_trade call that found the balance below the amount it needs
InsufficientFunds(o) == o.op = "open_trade" /\ o.why = "insufficient"

\* C13 (as specified): an open_trade refused for insufficient funds returns
\* False and leaves active trades, last-open time, balance, alert log and
\* event queue as they were.
C13_InsufficientFundsMutatesNothing ==
    [][InsufficientFunds(obs') =>
          /\ ~obs'.ok
          /\ active_trades' = active_trades
          /\ last_trade_execution_time' = last_trade_execution_time
          /\ portfolio' = portfolio
          /\ alert_log' = alert_log
          /\ event_queue' = event_queue]_vars

\* C13 (amended): open_trade is refused for insufficient funds exactly when
\* the symbol is not open, the source is not Live and the balance is below
\* the resolved amount; it then returns False, prepends one SKIP line to the
\* alert log, changes nothing else of the store, publishes nothing and its
\* caller does not go on to publish; a Live open is never refused for funds.
C13_InsufficientFundsOnlyLogs ==
    /\ [][obs'.op = "open_trade" =>
            (InsufficientFunds(obs') <=>
               /\ ~obs'.flag
               /\ ~IsLive(obs'.src)
               /\ portfolio.balance < resolve_trade_amount(NONE))]_vars
    /\ [][InsufficientFunds(obs') =>
            /\ ~obs'.ok
            /\ active_trades' = active_trades
            /\ last_trade_execution_time' = last_trade_execution_time
            /\ portfolio' = portfolio
            /\ <<coin_data', rsi_data', cooldowned_coins', global_stats', controls',
                 pause_timers'>> =
               <<coin_data, rsi_data, cooldowned_coins, global_stats, controls,
                 pause_timers>>
            /\ alert_log' = add_alert_log(alert_log, "SKIP", obs'.sym)
            /\ event_queue' = event_queue
            /\ \A t \in Threads : thr'[t].pc # "open_pub" \/ thr'[t] = thr[t]]_vars
    /\ [](\A s \in Symbols : \A a \in {NONE, 0, Cents(TRADE_AMOUNT_FIXED_USDT)} :
            open_trade_outcome(s, "Live", a) # "insufficient")

\* a manual open has just been refused with an empty portfolio
C13_Witness ==
    /\ InsufficientFunds(obs)
    /\ obs.src = "Manual"
    /\ ~obs.ok
    /\ portfolio.balance < resolve_trade_amount(NONE)
    /\ Len(alert_log) > 0

\* C14 (as specified): every open_trade that returned True ends with one
\* TRADE_OPENED event appended to the queue, carrying the record that call
\* inserted, whatever closes ran in between.
C14_OpenedEventAfterEveryOpen ==
    [][obs'.op = "open_trade_return" =>
          \E t \in Threads :
              /\ thr[t].pc = "open_pub" /\ thr'[t] = IdleThread
              /\ Len(event_queue') = Len(event_queue) + 1
              /\ event_queue'[Len(event_queue')].type = "TRADE_OPENED"
              /\ event_queue'[Len(event_queue')].trade.alert_num = thr[t].alert]_vars

\* a close_trade call that removed a trade
Closed(o) == o.op = "close_trade" /\ o.ok

\* C15: a close of a paper trade adds the record's pnl_usdt to the balance
\* and counts it once, as a win (with the cumulative profit) when pnl_usdt >= 0
\* and as a loss (with the cumulative loss, by |pnl_usdt|) otherwise; a close
\* of a Live trade leaves balance and stats alone; no other step changes
\* either of them.
C15_BalanceAndStatsFrame ==
    [][/\ Closed(obs') => obs'.trade = active_trades[obs'.sym]
       /\ (Closed(obs') /\ ~IsLive(obs'.src)) =>
             /\ portfolio'.balance = portfolio.balance + obs'.trade.pnl_usdt
             /\ global_stats' =
                   IF obs'.trade.pnl_usdt >= 0
                   THEN [global_stats EXCEPT
                           !.profitable_trades = @ + 1,
                           !.global_profit_usdt = @ + obs'.trade.pnl_usdt]
                   ELSE [global_stats EXCEPT
                           !.loss_trades = @ + 1,
                           !.global_loss_usdt = @ - obs'.trade.pnl_usdt]
       /\ (Closed(obs') /\ IsLive(obs'.src)) =>
             portfolio' = portfolio /\ global_stats' = global_stats
       /\ ~Closed(obs') => portfolio' = portfolio /\ global_stats' = global_stats]_vars

\* a paper trade has just been closed at a loss, the first one counted
C15_Witness ==
    /\ Closed(obs) /\ ~IsLive(obs.src)
    /\ obs.trade.pnl_usdt < 0
    /\ global_stats.loss_trades = 1
    /\ global_stats.global_loss_usdt = 0 - obs.trade.pnl_usdt
    /\ portfolio.balance = PortfolioFileBalance + obs.trade.pnl_usdt

\* C16 (as specified): a close_trade that removed a trade appends one
\* ADD_TO_COOLDOWN for the symbol, expiring DEFAULT_COOLDOWN_PERIOD after the
\* close, and its publish step appends TRADE_CLOSED, STATS_UPDATED and
\* PORTFOLIO_UPDATED in this order, TRADE_CLOSED carrying the removed record,
\* the reason, the close price, the exit indicator and the balance that
\* close left.
C16_CloseEvents ==
    [][/\ Closed(obs') =>
             /\ Len(event_queue') > Len(event_queue)
             /\ event_queue'[Len(event_queue) + 1] =
                   EvAddCooldown(obs'.sym, obs'.why, now + DEFAULT_COOLDOWN_PERIOD)
       /\ \A t \in Threads :
             (thr[t].pc = "close_pub" /\ thr'[t] = IdleThread) =>
                 event_queue' = event_queue \o
                     <<EvTradeClosed(thr[t].trade, thr[t].reason, thr[t].price,
                                     thr[t].rsi, thr[t].new_balance),
                       Event("STATS_UPDATED"), Event("PORTFOLIO_UPDATED")>>]_vars

\* C17 (as specified): the watermark of an open trade is the running minimum
\* of 0 and every pnl written since the open, so it is never above the pnl
\* the record holds now, whatever indicator value came with the updates.
C17_WatermarkIsRunningMinimum ==
    \A s \in DOMAIN active_trades :
        /\ active_trades[s].max_neg_pnl_pct <= Min(0, active_trades[s].pnl_percent)
        /\ active_trades[s].max_neg_pnl_usdt <= Min(0, active_trades[s].pnl_usdt)

\* C18: activate_global_pause called while the pause is off sets
\* global_pause_active, clears trade_execution_enabled, leaves the other
\* flags alone, publishes one GLOBAL_PAUSE_TRIGGERED with the loss count and
\* starts one timer due GLOBAL_PAUSE_DURATION_HOURS later; called while the
\* pause is on it changes no flag, publishes nothing and starts no timer.
C18_ActivateIsIdempotent ==
    [][obs'.op = "activate_global_pause" =>
          IF ~controls.global_pause_active
          THEN /\ obs'.ok
               /\ controls' = [controls EXCEPT !.global_pause_active = TRUE,
                                               !.trade_execution_enabled = FALSE]
               /\ event_queue' = Append(event_queue, EvPauseTriggered(obs'.n))
               /\ pause_timers' =
                     Append(pause_timers, now + GLOBAL_PAUSE_DURATION_HOURS * 3600)
          ELSE /\ ~obs'.ok
               /\ controls' = controls
               /\ event_queue' = event_queue
               /\ pause_timers' = pause_timers]_vars

\* the second of two activations has just found the pause on: one timer runs
C18_Witness ==
    /\ obs.op = "activate_global_pause" /\ ~obs.ok
    /\ calls = 2
    /\ controls.global_pause_active /\ ~controls.trade_execution_enabled
    /\ Len(pause_timers) = 1

\* a step that ran lift_global_pause: the timer, or the operator resuming
\* the global_pause_active control
Lifted(o) ==
    \/ o.op = "lift_global_pause"
    \/ o.op = "toggle_control" /\ o.sym = "global_pause_active" /\ o.why = "resume"

\* a step by which the operator re-arms trade execution
Rearmed(o) ==
    /\ o.op = "toggle_control" /\ o.why = "resume"
    /\ o.sym \in {"all", "trade_execution_enabled"}

\* C19: lift_global_pause, by the timer or by the operator, leaves the pause
\* off, publishes GLOBAL_PAUSE_LIFTED exactly when the pause was on, changes
\* no other flag and nothing else in the queue; trade_execution_enabled goes
\* from off to on only by an explicit resume of it (or of all controls).
C19_LiftKeepsExecutionFlag ==
    [][/\ Lifted(obs') =>
             /\ controls' = [controls EXCEPT !.global_pause_active = FALSE]
             /\ controls'.trade_execution_enabled = controls.trade_execution_enabled
             /\ event_queue' = IF controls.global_pause_active
                               THEN Append(event_queue, Event("GLOBAL_PAUSE_LIFTED"))
                               ELSE event_queue
       /\ (~controls.trade_execution_enabled /\ controls'.trade_execution_enabled) =>
             Rearmed(obs')]_vars

\* the timer has just lifted a tripped breaker: the pause is off, the event
\* is out, trade execution is still disabled
C19_Witness ==
    /\ obs.op = "lift_global_pause" /\ obs.src = "timer" /\ obs.ok
    /\ ~controls.global_pause_active
    /\ ~controls.trade_execution_enabled
    /\ Len(event_queue) > 0
    /\ event_queue[Len(event_queue)].type = "GLOBAL_PAUSE_LIFTED"

\* C20: whenever the global pause is on, a state with the pause off follows,
\* by the timers alone (no operator step is assumed to happen).
C20_PauseEventuallyLifted ==
    controls.global_pause_active ~> ~controls.global_pause_active

\* the last pending timer has just lifted the pause a full pause duration
\* after the start
C20_Witness ==
    /\ obs.op = "lift_global_pause" /\ obs.ok
    /\ now >= StartTime + GLOBAL_PAUSE_DURATION_HOURS * 3600
    /\ pause_timers = <<>>
    /\ ~controls.global_pause_active

\* C21: toggle_control of a flag other than global_pause_active sets
\* (resume) or clears (pause) that flag alone; of "all" it sets or clears
\* every flag but global_pause_active, which keeps its value;
\* of global_pause_active with pause, or of a name that is no control, it
\* changes nothing.  No case but the resume of global_pause_active touches
\* the queue, and none touches the rest of the store.
C21_ToggleControlFrame ==
    [][obs'.op = "toggle_control" =>
          LET name == obs'.sym
              action == obs'.why
          IN  /\ name = "all" =>
                    /\ \A n \in ControlNames \ {"global_pause_active"} :
                          controls'[n] = (action = "resume")
                    /\ controls'.global_pause_active = controls.global_pause_active
              /\ name \in ControlNames \ {"global_pause_active"} =>
                    controls' = [controls EXCEPT ![name] = (action = "resume")]
              /\ (name = "global_pause_active" /\ action = "pause") => controls' = controls
              /\ name \notin ControlNames \cup {"all"} => controls' = controls
              /\ ~(name = "global_pause_active" /\ action = "resume") =>
                    event_queue' = event_queue
              /\ <<coin_data', rsi_data', active_trades', cooldowned_coins', portfolio',
                   global_stats', alert_log', last_trade_execution_time', pause_timers'>> =
                 <<coin_data, rsi_data, active_trades, cooldowned_coins, portfolio,
                   global_stats, alert_log, last_trade_execution_time, pause_timers>>]_vars

\* "all" has just been paused while the breaker was tripped: every flag is
\* clear but global_pause_active, which is still set
C21_Witness ==
    /\ obs.op = "toggle_control" /\ obs.sym = "all" /\ obs.why = "pause"
    /\ controls.global_pause_active
    /\ \A n \in ControlNames \ {"global_pause_active"} : ~controls[n]

\* callbacks started for the k-th dequeued event, in start order
StartedFor(k) == SelectSeq(bus.started, LAMBDA h : h.k = k)

\* C22: events are dequeued in the order they were published (the dequeued
\* types are a prefix of the published ones and the rest is in the queue, in
\* order), the callbacks of an earlier event are started before those of a
\* later one, and every dequeued event started each subscriber of its type
\* exactly once.
C22_FifoDispatch ==
    /\ Len(bus.dispatched) <= Len(bus.published)
    /\ bus.dispatched = SubSeq(bus.published, 1, Len(bus.dispatched))
    /\ [i \in 1..Len(event_queue) |-> event_queue[i].type] =
          SubSeq(bus.published, Len(bus.dispatched) + 1, Len(bus.published))
    /\ \A i, j \in 1..Len(bus.started) : i < j => bus.started[i].k <= bus.started[j].k
    /\ \A k \in 1..Len(bus.dispatched) :
          [i \in 1..Len(StartedFor(k)) |-> StartedFor(k)[i].callback] =
             subscribers(bus.dispatched[k])

\* three events of different types were published and all dequeued: four
\* callbacks were started, those of the first event first
C22_Witness ==
    /\ bus.published = <<"TRADE_OPENED", "GLOBAL_PAUSE_LIFTED", "GLOBAL_PAUSE_TRIGGERED">>
    /\ bus.dispatched = bus.published
    /\ Len(bus.started) = 4
    /\ bus.started[1].k = 1 /\ bus.started[4].k = 3

\* a step of one callback: it returned or raised
CallbackStep == \E i \in 1..Len(bus.started) : bus'.started[i].st # bus.started[i].st

\* C23: publish is possible whatever the callbacks do; a callback that
\* returns or raises changes nothing but its own thread (not the queue, not
\* the other callbacks, which were all started with it); and every
\* published event is dequeued in the end even if callbacks never return.
C23_HandlersIsolated ==
    /\ [](Len(bus.published) < MaxBusEvents => ENABLED BusPublish)
    /\ [](event_queue # <<>> => ENABLED BusDispatch)
    /\ [][CallbackStep =>
            /\ event_queue' = event_queue
            /\ bus'.dispatched = bus.dispatched
            /\ Len(bus'.started) = Len(bus.started)
            /\ Cardinality({i \in 1..Len(bus.started) :
                               bus'.started[i] # bus.started[i]}) = 1]_vars
    /\ \A k \in 1..MaxBusEvents :
          (Len(bus.published) >= k) ~> (Len(bus.dispatched) >= k)

\* all events are dequeued while one callback of the first event has raised
\* and the others of that event are still running
C23_Witness ==
    /\ Len(bus.published) = MaxBusEvents
    /\ bus.dispatched = bus.published
    /\ bus.published[1] = "TRADE_OPENED"
    /\ bus.started[1].st = "raised"
    /\ bus.started[2].st = "running" /\ bus.started[3].st = "running"

\* C24 (as specified): a close_trade issued by the paper monitor (target
\* profit or indicator exit) removes a trade only while global_pause_active
\* is clear.
C24_NoMonitorCloseWhilePaused ==
    [][(Closed(obs') /\ obs'.why \in {"Target Profit", "RSI Close"}) =>
          ~controls.global_pause_active]_vars

\* ------------------------------------------- TradingService, live trading
\* The engine with config.LIVE_TRADING_ENABLED set: the entry goes through
\* BinanceTrader.execute_short_trade, and every Live trade is watched by a
\* _dedicated_live_monitor_loop thread of its own.

\* a _dedicated_live_monitor_loop thread: its symbol, where it is, and its
\* locals (pnl_usdt in cents, pnl_percent in hundredths)
NoLoop ==
    [sym |-> "-", pc |-> "-", pnl_usdt |-> 0, pnl_percent |-> 0, rsi |-> NONE,
     close_price |-> 0, trade |-> NoTrade]
Loops == 1..Len(live_loops)
Running(i) == live_loops[i].pc # "exited"

\* execute_short_trade, trading_service.py lines 160-202, as handle_rsi_update
\* sees it: (order, tp_order, None) with the average fill price, or
\* (None, None, error).  On failure lines 386-390 publish the short cooldown.
ExecuteShortTrade(t) ==
    /\ thr[t].kind = "handle_rsi_update" /\ thr[t].pc = "execute"
    /\ \E filled \in BOOLEAN : \E avgPrice \in Prices :
          /\ ~filled => avgPrice = thr[t].price
          /\ thr' = [thr EXCEPT ![t] =
                       IF filled
                       THEN [@ EXCEPT !.pc = "alert", !.price = avgPrice, !.source = "Live"]
                       ELSE [@ EXCEPT !.pc = "fail_log"]]
          /\ event_queue' =
                IF filled THEN event_queue
                ELSE Append(event_queue,
                            EvAddCooldown(thr[t].sym, "Live Fail", now + LIVE_FAIL_COOLDOWN))
          /\ live_fail_time' =
                IF filled THEN live_fail_time
                ELSE [live_fail_time EXCEPT ![thr[t].sym] = now]
          /\ obs' = Obs("execute_short_trade", thr[t].sym, "Live", filled, "-")
    /\ UNCHANGED <<timeVars, calls, storeVars, dbVars, mon, histVars, coin_changes, change_24h, coin_status, snapshot,
                   symbols_to_monitor, bus, rsi_peak_tracker, live_trade_monitor_threads,
                   live_loops>>

\* handle_rsi_update, lines 391-392: the failure goes to the alert log
LiveFailLog(t) ==
    /\ thr[t].kind = "handle_rsi_update" /\ thr[t].pc = "fail_log"
    /\ alert_log' = add_alert_log(alert_log, "FAIL", thr[t].sym)
    /\ thr' = [thr EXCEPT ![t] = IdleThread]
    /\ obs' = NoObs
    /\ UNCHANGED <<timeVars, scanVars, calls, coin_data, rsi_data, active_trades,
                   cooldowned_coins, portfolio, global_stats, controls,
                   last_trade_execution_time, pause_timers, event_queue, dbVars, mon,
                   histVars>>

\* the handlers TradingService subscribes (lines 271-273) beside those of
\* Spawned: _handle_trade_opened and _handle_trade_closed get the event's data
SpawnedLive(e) ==
    CASE e.type = "TRADE_OPENED" ->
            <<[IdleThread EXCEPT !.kind = "handle_trade_opened", !.pc = "run",
                                 !.trade = e.trade]>>
      [] e.type = "TRADE_CLOSED" ->
            <<[IdleThread EXCEPT !.kind = "handle_trade_closed", !.pc = "run",
                                 !.trade = e.trade]>>
      [] OTHER -> Spawned(e)

\* _start_live_trade_monitor, lines 306-313
start_live_trade_monitor(symbol) ==
    IF symbol \in live_trade_monitor_threads
    THEN UNCHANGED <<live_trade_monitor_threads, live_loops>>
    ELSE /\ live_trade_monitor_threads' = live_trade_monitor_threads \cup {symbol}
         /\ live_loops' = Append(live_loops, [NoLoop EXCEPT !.sym = symbol, !.pc = "top"])

\* _handle_trade_opened, lines 294-298: the symbol is looked up by alert_num
HandleTradeOpened(t) ==
    /\ thr[t].kind = "handle_trade_opened"
    /\ LET found == {s \in DOMAIN active_trades :
                        active_trades[s].alert_num = thr[t].trade.alert_num}
       IN  IF IsLive(thr[t].trade.source) /\ found # {}
           THEN \E symbol \in found : start_live_trade_monitor(symbol)
           ELSE UNCHANGED <<live_trade_monitor_threads, live_loops>>
    /\ thr' = [thr EXCEPT ![t] = IdleThread]
    /\ obs' = [Obs("handle_trade_opened", "-", thr[t].trade.source, TRUE, "-")
                  EXCEPT !.n = thr[t].trade.alert_num]
    /\ UNCHANGED <<timeVars, calls, storeVars, event_queue, dbVars, mon, histVars,
                   coin_changes, change_24h, coin_status, snapshot, symbols_to_monitor, bus, rsi_peak_tracker, live_fail_time>>

\* close_data['trade_data'].get('symbol'), line 301: "-" stands for None
trade_data_symbol(trade_data) ==
    IF "symbol" \in DOMAIN trade_data THEN trade_data.symbol ELSE "-"

\* _handle_trade_closed, lines 300-304
HandleTradeClosed(t) ==
    /\ thr[t].kind = "handle_trade_closed"
    /\ LET symbol == trade_data_symbol(thr[t].trade)
       IN  /\ live_trade_monitor_threads' =
                 IF symbol # "-" /\ symbol \in live_trade_monitor_threads
                 THEN live_trade_monitor_threads \ {symbol}
                 ELSE live_trade_monitor_threads
           /\ obs' = Obs("handle_trade_closed", symbol, thr[t].trade.source, TRUE, "-")
    /\ thr' = [thr EXCEPT ![t] = IdleThread]
    /\ UNCHANGED <<timeVars, calls, storeVars, event_queue, dbVars, mon, histVars,
                   coin_changes, change_24h, coin_status, snapshot, symbols_to_monitor, bus, rsi_peak_tracker, live_loops,
                   live_fail_time>>

\* what get_live_pnl may return: (pnl_usdt, pnl_percent); (0, 0) also stands
\* for a failed request
LivePnls == {<<0, 0>>, <<1, 10>>, <<2, 20>>}
\* what a successful close_live_trade may return as the price: 0.0 when no
\* position is left, else the average price of the closing order
LiveClosePrices == {0, 100}

\* _dedicated_live_monitor_loop, lines 317-319
LoopTop(i) ==
    /\ i \in Loops /\ live_loops[i].pc = "top"
    /\ live_loops' = [live_loops EXCEPT ![i].pc =
                         IF IsOpen(live_loops[i].sym) THEN "read" ELSE "exited"]
    /\ obs' = Obs("live_monitor_check", live_loops[i].sym, "-", IsOpen(live_loops[i].sym), "-")
    /\ UNCHANGED <<timeVars, calls, storeVars, event_queue, dbVars, thr, mon, histVars,
                   coin_changes, change_24h, coin_status, snapshot, symbols_to_monitor, bus, rsi_peak_tracker,
                   live_trade_monitor_threads, live_fail_time>>

\* lines 321-323: the exchange's figures, then the indicator under the lock
LoopRead(i) ==
    /\ i \in Loops /\ live_loops[i].pc = "read"
    /\ \E pnl \in LivePnls :
          live_loops' = [live_loops EXCEPT ![i].pc = "update",
                                           ![i].pnl_usdt = pnl[1],
                                           ![i].pnl_percent = pnl[2],
                                           ![i].rsi = rsi_data[live_loops[i].sym]]
    /\ obs' = NoObs
    /\ UNCHANGED <<timeVars, calls, storeVars, event_queue, dbVars, thr, mon, histVars,
                   coin_changes, change_24h, coin_status, snapshot, symbols_to_monitor, bus, rsi_peak_tracker,
                   live_trade_monitor_threads, live_fail_time>>

live_exit_without_epsilon(current_rsi, pnl_usdt) ==
    IsNumeric(current_rsi) /\ current_rsi <= TRADE_CLOSE_RSI /\ pnl_usdt > 0
\* line 327: the exit rule of a Live trade
live_exit(current_rsi, pnl_usdt) ==
    IsNumeric(current_rsi) /\ current_rsi <= TRADE_CLOSE_RSI /\ pnl_usdt > LIVE_EXIT_EPSILON

\* lines 325-327 and 334: update_trade_pnl, then the exit rule; the loop
\* sleeps and starts over when it does not hold
LoopUpdate(i) ==
    /\ i \in Loops /\ live_loops[i].pc = "update"
    /\ active_trades' = update_trade_pnl(live_loops[i].sym, live_loops[i].pnl_percent,
                                         live_loops[i].pnl_usdt, live_loops[i].rsi)
    /\ live_loops' = [live_loops EXCEPT ![i].pc =
                         IF live_exit(live_loops[i].rsi, live_loops[i].pnl_usdt)
                         THEN "flatten" ELSE "top"]
    /\ obs' = Obs("update_trade_pnl", live_loops[i].sym, "-", IsOpen(live_loops[i].sym), "-")
    /\ UNCHANGED <<timeVars, calls, coin_data, rsi_data, cooldowned_coins, portfolio,
                   global_stats, controls, alert_log, last_trade_execution_time,
                   pause_timers, event_queue, dbVars, thr, mon, histVars, coin_changes, change_24h, coin_status, snapshot,
                   symbols_to_monitor, bus, rsi_peak_tracker, live_trade_monitor_threads,
                   live_fail_time>>

\* lines 329-330: close_live_trade, (True, price) or (False, 0.0); close_trade
\* is reached only after a success, else the loop sleeps and starts over
LoopFlatten(i) ==
    /\ i \in Loops /\ live_loops[i].pc = "flatten"
    /\ \E success \in BOOLEAN : \E close_price \in LiveClosePrices :
          /\ ~success => close_price = 0
          /\ live_loops' = [live_loops EXCEPT ![i].pc =
                               IF success THEN "close" ELSE "top",
                                              ![i].close_price = close_price]
          /\ obs' = [Obs("close_live_trade", live_loops[i].sym, "Live", success, "-")
                        EXCEPT !.price = close_price]
    /\ UNCHANGED <<timeVars, calls, storeVars, event_queue, dbVars, thr, mon, histVars,
                   coin_changes, change_24h, coin_status, snapshot, symbols_to_monitor, bus, rsi_peak_tracker,
                   live_trade_monitor_threads, live_fail_time>>

\* line 331: the critical section of close_trade; the loop ends after the
\* call (line 332) whatever it did
LoopClose(i) ==
    /\ i \in Loops /\ live_loops[i].pc = "close"
    /\ close_trade(live_loops[i].sym, "RSI Close", live_loops[i].close_price,
                   live_loops[i].rsi, FALSE)
    /\ live_loops' = [live_loops EXCEPT ![i] =
                         IF close_trade_found(live_loops[i].sym)
                         THEN [@ EXCEPT !.pc = "close_pub",
                                        !.trade = active_trades[live_loops[i].sym]]
                         ELSE [@ EXCEPT !.pc = "exited"]]
    /\ UNCHANGED <<timeVars, calls, coin_data, rsi_data, cooldowned_coins, controls,
                   last_trade_execution_time, pause_timers, dbVars, thr, mon,
                   last_engine_open, opened_events, coin_changes, change_24h, coin_status, snapshot, symbols_to_monitor, bus,
                   rsi_peak_tracker, live_trade_monitor_threads, live_fail_time>>

\* close_trade, lines 216-221, in the loop's thread
LoopClosePublish(i) ==
    /\ i \in Loops /\ live_loops[i].pc = "close_pub"
    /\ event_queue' = event_queue \o
          close_trade_events(live_loops[i].trade, "RSI Close", live_loops[i].close_price,
                             live_loops[i].rsi)
    /\ live_loops' = [live_loops EXCEPT ![i].pc = "exited"]
    /\ obs' = NoObs
    /\ UNCHANGED <<timeVars, calls, storeVars, dbVars, thr, mon, histVars, coin_changes, change_24h, coin_status, snapshot,
                   symbols_to_monitor, bus, rsi_peak_tracker, live_trade_monitor_threads,
                   live_fail_time>>

\* time passes until the next cooldown entry runs out
TickToCooldownEnd ==
    /\ \E s \in DOMAIN cooldowned_coins :
          /\ cooldowned_coins[s].end_time > now
          /\ \A u \in DOMAIN cooldowned_coins :
                cooldowned_coins[u].end_time > now =>
                   cooldowned_coins[s].end_time <= cooldowned_coins[u].end_time
          /\ now' = cooldowned_coins[s].end_time
    /\ obs' = NoObs
    /\ UNCHANGED <<ticks, scanVars, calls, storeVars, event_queue, dbVars, thr, mon, histVars>>

MaxLiveCalls == 3      \* external calls per run of the live engine
LiveRsiInputs == {60, 96}

\* the registry is keyed by symbol: no more loops than symbols
LoopSlots == 1..Cardinality(Symbols)

LoopStep ==
    \E i \in LoopSlots :
       \/ LoopTop(i)
       \/ LoopRead(i)
       \/ LoopUpdate(i)
       \/ LoopFlatten(i)
       \/ LoopClose(i)
       \/ LoopClosePublish(i)

LiveThreadStep ==
    \E t \in Threads :
       \/ RsiCheck(t)
       \/ RsiDecide(t)
       \/ RsiMarginWith(TRUE, t)
       \/ ExecuteShortTrade(t)
       \/ LiveFailLog(t)
       \/ GetNextAlertNumber(t)
       \/ ThreadOpenTrade(t)
       \/ ThreadOpenPublish(t)
       \/ HandleAddToCooldown(t)
       \/ HandleTradeOpened(t)
       \/ HandleTradeClosed(t)

\* One symbol, traded live: indicator samples, the operator's manual close,
\* the bus, the handlers, the loops, the cooldowns running out.
InitLive ==
    /\ InitBot("armed")
    /\ coin_changes = [v \in ChangeValues |->
                          IF v = RSI_HOT_COIN_THRESHOLD THEN Cardinality(Symbols) ELSE 0]

NextLive ==
    \/ \E v \in LiveRsiInputs : UpdateRsiWithin(MaxLiveCalls, "X", v)
    \/ ManualCloseWithin(MaxLiveCalls)
    \/ ProcessEventsWith(SpawnedLive)
    \/ LiveThreadStep
    \/ LoopStep
    \/ TickToCooldownEnd

SpecLive == InitLive /\ [][NextLive]_vars

\* the TRADE_OPENED event of the Live trade open for s has been published and
\* its _handle_trade_opened has run to the end
LiveOpenSettled(s) ==
    /\ IsOpen(s) /\ IsLive(active_trades[s].source)
    /\ \A t \in Threads :
          /\ ~(thr[t].sym = s /\ thr[t].pc = "open_pub")
          /\ ~(thr[t].kind = "handle_trade_opened"
                 /\ thr[t].trade.alert_num = active_trades[s].alert_num)
    /\ \A k \in 1..Len(event_queue) :
          ~(event_queue[k].type = "TRADE_OPENED"
              /\ event_queue[k].trade.alert_num = active_trades[s].alert_num)

\* C25 (as specified): every open Live trade whose TRADE_OPENED event has
\* been handled has a running monitor loop of its own, also when an earlier
\* Live trade of the symbol was closed before.
C25_EveryLiveTradeMonitored ==
    \A s \in Symbols :
       LiveOpenSettled(s) => \E i \in Loops : live_loops[i].sym = s /\ Running(i)

\* loop i took a step
LoopStepped(i) == i \in Loops /\ live_loops'[i] # live_loops[i]

C27_LiveExitRule ==
    [][\A i \in LoopSlots :
          LoopStepped(i) =>
             /\ live_loops[i].pc = "update" =>
                   (live_loops'[i].pc = "flatten" <=>
                       /\ IsNumeric(live_loops[i].rsi)
                       /\ live_loops[i].rsi <= TRADE_CLOSE_RSI
                       /\ live_loops[i].pnl_usdt > LIVE_EXIT_EPSILON)
             /\ live_loops'[i].pc = "flatten" => live_loops[i].pc = "update"
             /\ live_loops'[i].pc = "close" =>
                   /\ live_loops[i].pc = "flatten"
                   /\ obs'.op = "close_live_trade" /\ obs'.ok
                   /\ active_trades' = active_trades
             /\ (live_loops[i].pc = "flatten" /\ live_loops'[i].pc # "close") =>
                   /\ obs'.op = "close_live_trade" /\ ~obs'.ok
                   /\ active_trades' = active_trades
                   /\ live_loops'[i].pc = "top"
             /\ Closed(obs') => live_loops[i].pc = "close"]_vars

\* a Live trade has just been closed by its loop, which had read an indicator
\* at the threshold or below and a pnl_usdt above 0.01
C27_Witness ==
    /\ Closed(obs) /\ obs.why = "RSI Close" /\ IsLive(obs.src)
    /\ \E i \in Loops :
          /\ live_loops[i].sym = obs.sym /\ live_loops[i].pc = "close_pub"
          /\ live_loops[i].rsi <= TRADE_CLOSE_RSI
          /\ live_loops[i].pnl_usdt > LIVE_EXIT_EPSILON

\* --------------------------------------- the paper monitor's exit rule
\* One restored paper trade of X (entry price 100, leverage LEVERAGE) under
\* the sweep, with prices on both sides of the entry and of the take-profit
\* target, and indicator samples on both sides of TRADE_CLOSE_RSI.
MonitorPrices == {90, 95, 96, 100, 104}
MonitorRsiInputs == {NEW_COIN, 60, 65, 66}

InitMonitor ==
    /\ InitBot("open")
    /\ coin_changes = [v \in ChangeValues |->
                          IF v = RSI_HOT_COIN_THRESHOLD THEN Cardinality(Symbols) ELSE 0]

NextMonitor ==
    \/ UpdateMarketDataFrom(MonitorPrices)
    \/ \E v \in MonitorRsiInputs : UpdateRsi("X", v)
    \/ ActivateGlobalPause
    \/ MonSnapshot
    \/ MonRead
    \/ MonUpdate
    \/ MonCheck
    \/ MonClose
    \/ MonClosePublish

SpecMonitor == InitMonitor /\ [][NextMonitor]_vars

\* C28: the sweep's turn for a paper trade computes pnl_percent as
\* ((entry_price - current_price) / entry_price) * 100 * leverage (here in
\* hundredths of a percent); with global_pause_active clear it goes on to
\* close_trade with reason "Target Profit" when pnl_percent is at least
\* TAKE_PROFIT_PERCENT, else with reason "RSI Close" when the indicator is a
\* number at or below TRADE_CLOSE_RSI and pnl_usdt is positive, and else it
\* does not close; it never goes on to close with a pnl that is not positive.
C28_PaperExitDecision ==
    /\ [][(mon.pc = "iter" /\ mon'.pc = "update") =>
             mon'.pnl_percent =
                (((mon.snap[mon'.sym].entry_price - coin_data[mon'.sym]) * 100 * 100)
                    \div mon.snap[mon'.sym].entry_price) * mon.snap[mon'.sym].leverage]_vars
    /\ [][(mon.pc = "check" /\ mon' # mon /\ ~controls.global_pause_active) =>
             IF mon.pnl_percent >= TAKE_PROFIT_PERCENT * 100
             THEN mon'.pc = "close" /\ mon'.reason = "Target Profit"
             ELSE IF IsNumeric(mon.rsi) /\ mon.rsi <= TRADE_CLOSE_RSI /\ mon.pnl_usdt > 0
                  THEN mon'.pc = "close" /\ mon'.reason = "RSI Close"
                  ELSE mon'.pc # "close"]_vars
    /\ [][(mon.pc # "close" /\ mon'.pc = "close") =>
             /\ mon.pc = "check"
             /\ mon.pnl_percent > 0 /\ mon.pnl_usdt > 0]_vars

\* the sweep is about to close a trade for the indicator, below the target
C28_Witness ==
    /\ mon.pc = "close" /\ mon.reason = "RSI Close"
    /\ mon.pnl_percent > 0 /\ mon.pnl_percent < TAKE_PROFIT_PERCENT * 100
    /\ ~controls.global_pause_active

\* C29 (as specified): a failed execute_short_trade opens nothing, its thread
\* goes on to the alert log alone, and it publishes ADD_TO_COOLDOWN for the
\* symbol with end_time 300 s after the failure; and the engine does not call
\* execute_short_trade for a symbol within 300 s of a failure for it.
C29_FailedFillCoolsDown ==
    /\ [][(obs'.op = "execute_short_trade" /\ ~obs'.ok) =>
             /\ active_trades' = active_trades
             /\ \A t \in Threads :
                   thr'[t] # thr[t] => thr'[t].pc = "fail_log"
             /\ event_queue' =
                   Append(event_queue,
                          EvAddCooldown(obs'.sym, "Live Fail", now + LIVE_FAIL_COOLDOWN))]_vars
    /\ [][(thr' # thr /\ \E t \in Threads : thr[t].pc = "fail_log" /\ thr'[t] # thr[t]) =>
             active_trades' = active_trades]_vars
    /\ [][obs'.op = "execute_short_trade" =>
             \/ live_fail_time[obs'.sym] = NONE
             \/ now >= live_fail_time[obs'.sym] + LIVE_FAIL_COOLDOWN]_vars

\* ------------------------------------------------------ the peak tracker
\* update_rsi_value on a store whose tracker was loaded from
\* rsi_peak_tracker.json: no entry, or an entry for X that is fresh, exactly
\* as old as the lookback window, or older.
PeakPrices == {90, 100, 110}
PeakRsiInputs == {NEW_COIN, 95, 96}
PeakTrackerFiles ==
    {<<>>} \cup
    {[x \in {"X"} |-> [peak_price |-> p, timestamp |-> ts]] :
        p \in {100},
        ts \in {StartTime, StartTime - STALE_SIGNAL_LOOKBACK_HOURS * 3600,
                StartTime - STALE_SIGNAL_LOOKBACK_HOURS * 3600 - 1}}

InitPeak ==
    /\ \E sc \in {"fresh", "armed"} : \E file \in PeakTrackerFiles : InitBotWith(sc, file)
    /\ change_24h = [s \in Symbols |-> RSI_HOT_COIN_THRESHOLD]
    /\ coin_changes = [v \in ChangeValues |-> 0]

NextPeak ==
    \/ Tick
    \/ UpdateMarketDataFrom(PeakPrices)
    \/ \E s \in Symbols : \E v \in PeakRsiInputs : UpdateRsi(s, v)

SpecPeak == InitPeak /\ [][NextPeak]_vars

\* the step is update_rsi_value(s, v)
Sampled(s, v) == event_queue' = Append(event_queue, EvRsi(s, v))
PeakChanged(s) ==
    \/ (s \in DOMAIN rsi_peak_tracker') # (s \in DOMAIN rsi_peak_tracker)
    \/ /\ s \in DOMAIN rsi_peak_tracker /\ s \in DOMAIN rsi_peak_tracker'
       /\ rsi_peak_tracker'[s] # rsi_peak_tracker[s]

\* C30: the tracker entry of a symbol changes only in an update_rsi_value
\* for it with a sample that is a number above RSI_ALERT_THRESHOLD while a
\* price is known; such an update sets the entry to (current price, now)
\* when there is none or its timestamp is more than the lookback window
\* back, and otherwise leaves the entry as it is unless the current price is
\* above the peak, which then becomes the current price.
C30_PeakTrackerRule ==
    [][\A s \in Symbols :
          /\ PeakChanged(s) =>
                \E v \in PeakRsiInputs :
                   Sampled(s, v) /\ v >= 0 /\ v > RSI_ALERT_THRESHOLD /\ coin_data[s] # 0
          /\ \A v \in PeakRsiInputs :
                (Sampled(s, v) /\ v >= 0 /\ v > RSI_ALERT_THRESHOLD /\ coin_data[s] # 0) =>
                   /\ s \in DOMAIN rsi_peak_tracker'
                   /\ IF \/ s \notin DOMAIN rsi_peak_tracker
                         \/ now - rsi_peak_tracker[s].timestamp >
                               STALE_SIGNAL_LOOKBACK_HOURS * 3600
                      THEN rsi_peak_tracker'[s] =
                              [peak_price |-> coin_data[s], timestamp |-> now]
                      ELSE IF coin_data[s] > rsi_peak_tracker[s].peak_price
                           THEN rsi_peak_tracker'[s].peak_price = coin_data[s]
                           ELSE rsi_peak_tracker'[s] = rsi_peak_tracker[s]]_vars

\* X has just been sampled above the threshold at a price below its peak,
\* with an entry inside the lookback window: the entry was left as it was
C30_Witness ==
    /\ event_queue # <<>>
    /\ event_queue[Len(event_queue)] = EvRsi("X", 96)
    /\ "X" \in DOMAIN rsi_peak_tracker
    /\ coin_data["X"] # 0
    /\ coin_data["X"] < rsi_peak_tracker["X"].peak_price
    /\ now - rsi_peak_tracker["X"].timestamp <= STALE_SIGNAL_LOOKBACK_HOURS * 3600

\* ------------------------------------------- the watch list, by symbol
\* get_symbols_to_monitor on stores with an open trade or a cooldown entry,
\* the listed symbols at any change value, known to the feed or not.
InitWatch ==
    /\ \E sc \in {"armed", "open", "cooldown"} : InitBotWith(sc, <<>>)
    /\ change_24h \in [Symbols -> ChangeValues]
    /\ coin_changes \in [ChangeValues -> CoinCounts]
    /\ ListedCounted

SpecWatch == InitWatch /\ [][GetSymbolsToMonitor]_vars

\* C31: get_symbols_to_monitor returns the open symbols, the symbols with a
\* cooldown entry and the coins whose change_24h is at least the effective
\* threshold, and nothing else, each once, in an order of descending
\* change_24h (0 for a symbol without a market entry).
C31_WatchListIsUnion ==
    [][coin_changes' = coin_changes =>
         LET r == symbols_to_monitor'
             listed == {r.symbols[i] : i \in DOMAIN r.symbols}
         IN  /\ listed =
                   DOMAIN active_trades \cup DOMAIN cooldowned_coins \cup
                   {s \in Symbols : coin_data[s] # 0 /\ change_24h[s] >= r.dynamic_threshold}
             /\ \A v \in ChangeValues :
                   r.final_hot_coins[v] =
                      IF v >= r.dynamic_threshold THEN coin_changes[v] ELSE 0
             /\ Len(r.symbols) = Cardinality(listed)
             /\ \A i, j \in DOMAIN r.symbols :
                   i < j =>
                      (IF r.symbols[i] \in Symbols /\ coin_data[r.symbols[i]] # 0
                       THEN change_24h[r.symbols[i]] ELSE 0)
                      >=
                      (IF r.symbols[j] \in Symbols /\ coin_data[r.symbols[j]] # 0
                       THEN change_24h[r.symbols[j]] ELSE 0)]_vars

\* the list holds a symbol that is there for its cooldown entry or its open
\* trade alone, after a coin that is there for its change
C31_Witness ==
    /\ symbols_to_monitor.called
    /\ Len(symbols_to_monitor.symbols) = 2
    /\ symbols_to_monitor.symbols[2] \in DOMAIN active_trades \cup DOMAIN cooldowned_coins
    /\ symbols_to_monitor.symbols[2] \in Symbols
    /\ change_24h[symbols_to_monitor.symbols[2]] < symbols_to_monitor.dynamic_threshold
    /\ symbols_to_monitor.symbols[1] \notin DOMAIN active_trades \cup DOMAIN cooldowned_coins
    /\ symbols_to_monitor.dynamic_threshold > RSI_HOT_COIN_THRESHOLD

\* ------------------------------------------------ entries and the balance
\* The engine on a balance that covers the margin requirement of one entry
\* (and the amounts of one trade, not of two), or that falls just short of it,
\* with samples above the alert threshold for both symbols.
InitEntries ==
    /\ \E sc \in {"tight", "short"} : InitBot(sc)
    /\ coin_changes = [v \in ChangeValues |->
                          IF v = RSI_HOT_COIN_THRESHOLD THEN Cardinality(Symbols) ELSE 0]

NextEntries ==
    \/ Tick
    \/ \E s \in Symbols : UpdateRsi(s, 96)
    \/ ProcessEvents
    \/ \E t \in Threads : RsiCheck(t)
    \/ \E t \in Threads : RsiDecide(t)
    \/ \E t \in Threads : RsiMargin(t)
    \/ \E t \in Threads : GetNextAlertNumber(t)
    \/ \E t \in Threads : ThreadOpenTrade(t)
    \/ \E t \in Threads : ThreadOpenPublish(t)

SpecEntries == InitEntries /\ [][NextEntries]_vars

\* C32: an entry is let through only on a balance that covers its margin
\* requirement, and opening a trade leaves the balance as it was (nothing is
\* set aside for the trade): a second entry is checked against the same
\* balance.
C32_BalanceCheckedNotReserved ==
    /\ [][\A t \in Threads :
             (thr[t].pc = "margin" /\ thr'[t].pc = "alert") =>
                portfolio.balance >= Max(thr'[t].amount, MIN_MARGIN_CENTS)]_vars
    /\ [][(obs'.op = "open_trade" /\ obs'.ok) => portfolio' = portfolio]_vars

\* both symbols were opened by the engine on a balance that covers the
\* margin requirement and the amount of one trade only
C32_Witness ==
    /\ \A s \in Symbols : IsOpen(s) /\ active_trades[s].source = "Bot"
    /\ portfolio.balance >= MIN_MARGIN_CENTS
    /\ portfolio.balance < 2 * MIN_MARGIN_CENTS
    /\ portfolio.balance < active_trades["X"].trade_amount + active_trades["Y"].trade_amount

\* ------------------------------------------------------------ the locks
\* StateManager.lock and DatabaseManager.db_lock (both threading.RLock) are
\* read off where the threads are: the critical sections that are one step
\* of the model hold a lock only within that step; the sections below hold
\* one across steps.
HoldsStateLock(t) ==
    thr[t].pc \in {"sync_db_trades", "sync_live_pnl", "sync_alert", "sync_restore",
                   "sync_open", "sync_update", "discard_pop", "discard_update"}
HoldsDbLock(t) == thr[t].pc \in {"db_coin", "db_write"}
StateLockFree == \A t \in Threads : ~HoldsStateLock(t)
DbLockFree == \A t \in Threads : ~HoldsDbLock(t)

\* the thread is about to make, or is inside, a call to the exchange
\* (execute_short_trade, get_live_pnl) or to the DatabaseManager
InExternalCall(t) ==
    thr[t].pc \in {"execute", "alert", "sync_db_trades", "sync_live_pnl", "sync_alert"}

\* ------------------------------------- TradingService, sync_open_positions
\* lines 233-239: get_open_positions, before the lock; an exchange position,
\* if there is one, is on X
SyncOpenPositions ==
    /\ calls = 0
    /\ Call
    /\ FreeSlots # {}
    /\ \E live_positions \in {{}, {"X"}} :
          thr' = IF live_positions = {} THEN thr
                 ELSE [thr EXCEPT ![FirstFree] =
                         [IdleThread EXCEPT !.kind = "sync_open_positions",
                                            !.pc = "sync_lock", !.sym = "X",
                                            !.price = 100,
                                            !.amount = Cents(TRADE_AMOUNT_FIXED_USDT)]]
    /\ obs' = NoObs
    /\ UNCHANGED <<timeVars, scanVars, storeVars, event_queue, dbVars, mon, histVars>>

\* line 240: with self.state.lock
SyncLock(t) ==
    /\ thr[t].pc = "sync_lock"
    /\ StateLockFree
    /\ thr' = [thr EXCEPT ![t].pc = "sync_db_trades"]
    /\ obs' = NoObs
    /\ UNCHANGED <<timeVars, scanVars, calls, storeVars, event_queue, dbVars, mon, histVars>>

\* lines 241-246: get_open_db_trades (it takes db_lock), then the position:
\* a symbol that is active is skipped, and the block ends
SyncGetOpenDbTrades(t) ==
    /\ thr[t].pc = "sync_db_trades"
    /\ DbLockFree
    /\ LET rows == {r \in db_trades : r.status = "Open" /\ r.symbol = thr[t].sym}
       IN  thr' = [thr EXCEPT ![t] =
                     IF IsOpen(thr[t].sym) THEN IdleThread
                     ELSE [@ EXCEPT !.pc = "sync_live_pnl",
                                    !.in_trade = rows # {},
                                    !.alert = IF rows = {} THEN 0
                                              ELSE (CHOOSE r \in rows : TRUE).alert_id]]
    /\ obs' = Obs("get_open_db_trades", thr[t].sym, "-", TRUE, "-")
    /\ UNCHANGED <<timeVars, scanVars, calls, storeVars, event_queue, dbVars, mon, histVars>>

\* line 248: get_live_pnl
SyncGetLivePnl(t) ==
    /\ thr[t].pc = "sync_live_pnl"
    /\ \E pnl \in LivePnls :
          thr' = [thr EXCEPT ![t].pc = IF thr[t].in_trade THEN "sync_restore" ELSE "sync_alert",
                             ![t].trade = [NoTrade EXCEPT !.pnl_usdt = pnl[1],
                                                          !.pnl_percent = pnl[2]]]
    /\ obs' = Obs("get_live_pnl", thr[t].sym, "-", TRUE, "-")
    /\ UNCHANGED <<timeVars, scanVars, calls, storeVars, event_queue, dbVars, mon, histVars>>

\* lines 249-255: the position has an 'Open' row
SyncRestore(t) ==
    /\ thr[t].pc = "sync_restore"
    /\ restore_live_trade(thr[t].sym, thr[t].price, thr[t].amount, LEVERAGE,
                          thr[t].alert, NONE)
    /\ thr' = [thr EXCEPT ![t].pc = "sync_update"]
    /\ UNCHANGED <<timeVars, scanVars, calls, coin_data, rsi_data, cooldowned_coins, portfolio,
                   global_stats, controls, alert_log, last_trade_execution_time,
                   pause_timers, event_queue, dbVars, mon, histVars>>

\* line 258: get_next_alert_number for a position without a row
SyncGetNextAlertNumber(t) ==
    /\ thr[t].pc = "sync_alert"
    /\ DbLockFree
    /\ alert_counter' = alert_counter + 1
    /\ thr' = [thr EXCEPT ![t].pc = "sync_open", ![t].alert = alert_counter + 1]
    /\ obs' = Obs("get_next_alert_number", thr[t].sym, "-", TRUE, "-")
    /\ UNCHANGED <<timeVars, scanVars, calls, storeVars, event_queue, db_trades, mon, histVars>>

\* lines 259-264: open_trade with source "Live", and its publish
SyncOpen(t) ==
    /\ thr[t].pc = "sync_open"
    /\ open_trade(thr[t].sym, thr[t].price, NONE, "Live", thr[t].alert, thr[t].amount)
    /\ event_queue' = Append(event_queue, EvTradeOpened(active_trades'[thr[t].sym]))
    /\ opened_events' = [opened_events EXCEPT ![thr[t].sym] = @ + 1]
    /\ thr' = [thr EXCEPT ![t].pc = "sync_update"]
    /\ UNCHANGED <<timeVars, scanVars, calls, coin_data, rsi_data, cooldowned_coins, portfolio,
                   global_stats, controls, pause_timers, dbVars, mon, close_cooldown_until>>

\* lines 265-266, and the end of the block: update_trade_pnl,
\* _start_live_trade_monitor, the lock is released
SyncUpdate(t) ==
    /\ thr[t].pc = "sync_update"
    /\ active_trades' = update_trade_pnl(thr[t].sym, thr[t].trade.pnl_percent,
                                         thr[t].trade.pnl_usdt, NONE)
    /\ start_live_trade_monitor(thr[t].sym)
    /\ thr' = [thr EXCEPT ![t] = IdleThread]
    /\ obs' = Obs("update_trade_pnl", thr[t].sym, "-", IsOpen(thr[t].sym), "-")
    /\ UNCHANGED <<timeVars, calls, coin_data, rsi_data, cooldowned_coins, portfolio,
                   global_stats, controls, alert_log, last_trade_execution_time,
                   pause_timers, event_queue, dbVars, mon, histVars, coin_changes, change_24h, coin_status, snapshot,
                   symbols_to_monitor, bus, rsi_peak_tracker, live_fail_time>>

SyncStep ==
    \E t \in Threads :
       \/ SyncLock(t)
       \/ SyncGetOpenDbTrades(t)
       \/ SyncGetLivePnl(t)
       \/ SyncRestore(t)
       \/ SyncGetNextAlertNumber(t)
       \/ SyncOpen(t)
       \/ SyncUpdate(t)

\* Live trading with the position synchronisation at start-up: the exchange
\* may hold a position on X, with an 'Open' row from an earlier run
\* ("live_row"), without one ("armed"), or beside a paper trade on X ("open").
\* A step that enters a critical section of the store waits for the lock.
InitSync ==
    /\ \E sc \in {"armed", "open", "live_row"} : InitBot(sc)
    /\ coin_changes = [v \in ChangeValues |->
                          IF v = RSI_HOT_COIN_THRESHOLD THEN Cardinality(Symbols) ELSE 0]

NextSync ==
    \/ SyncOpenPositions
    \/ SyncStep
    \/ StateLockFree /\ UpdateRsiWithin(MaxLiveCalls, "X", 96)
    \/ ProcessEventsWith(SpawnedLive)
    \/ \E t \in Threads : StateLockFree /\ RsiCheck(t)
    \/ \E t \in Threads : StateLockFree /\ RsiDecide(t)
    \/ \E t \in Threads : StateLockFree /\ RsiMarginWith(TRUE, t)
    \/ \E t \in Threads : ExecuteShortTrade(t)
    \/ \E t \in Threads : StateLockFree /\ LiveFailLog(t)
    \/ \E t \in Threads : DbLockFree /\ GetNextAlertNumber(t)
    \/ \E t \in Threads : StateLockFree /\ ThreadOpenTrade(t)
    \/ \E t \in Threads : ThreadOpenPublish(t)
    \/ \E t \in Threads : StateLockFree /\ HandleAddToCooldown(t)
    \/ \E t \in Threads : HandleTradeOpened(t)
    \/ \E i \in LoopSlots : StateLockFree /\ LoopTop(i)
    \/ \E i \in LoopSlots : StateLockFree /\ LoopRead(i)
    \/ \E i \in LoopSlots : StateLockFree /\ LoopUpdate(i)

SpecSync == InitSync /\ [][NextSync]_vars

\* C33: no engine worker is inside a call to the exchange or to the
\* persistence while it holds the lock of the store.
C33_NoExternalCallUnderStateLock ==
    \A t \in Threads : InExternalCall(t) => ~HoldsStateLock(t)

\* ------------------------------------------------- the state snapshot
\* get_full_state_snapshot, lines 75-94, as GET /data calls it (server.py
\* line 44).  coin_data.copy() is a new dict of the same entries; the records
\* of active_trades and cooldowned_coins are copied one by one.
GetFullStateSnapshot ==
    /\ Call
    /\ snapshot' = [coin_data |-> {s \in Symbols : coin_data[s] # 0},
                    shared |-> {s \in Symbols : coin_data[s] # 0},
                    active_trades |-> active_trades,
                    alerted_coins |-> cooldowned_coins,
                    todo |-> {s \in Symbols : coin_data[s] # 0}]
    /\ obs' = Obs("get_full_state_snapshot", "-", "-", TRUE, "-")
    /\ UNCHANGED <<timeVars, coin_changes, change_24h, coin_status, symbols_to_monitor, bus,
                   rsi_peak_tracker, liveVars, storeVars, event_queue, dbVars, thr, mon,
                   histVars>>

\* get_data, server.py lines 92-101: the status of a symbol, from the snapshot
snapshot_status(symbol) ==
    IF symbol \in DOMAIN snapshot.active_trades
    THEN IF IsLive(snapshot.active_trades[symbol].source) THEN "trading-live"
         ELSE "trading-bot"
    ELSE IF /\ symbol \in DOMAIN snapshot.alerted_coins
            /\ now < snapshot.alerted_coins[symbol].end_time
         THEN "cooldown"
         ELSE "available"

\* get_data, server.py lines 91-105, for one entry of state['coin_data']:
\* data.update({'status': ...}) writes into the entry, which is the store's
\* own dict as long as no batch has replaced it
GetDataEntry ==
    /\ \E symbol \in snapshot.todo :
          /\ coin_status' = IF symbol \in snapshot.shared
                            THEN [coin_status EXCEPT ![symbol] = snapshot_status(symbol)]
                            ELSE coin_status
          /\ snapshot' = [snapshot EXCEPT !.todo = @ \ {symbol}]
          /\ obs' = Obs("get_data", symbol, "-", symbol \in snapshot.shared, "-")
    /\ UNCHANGED <<timeVars, calls, coin_changes, change_24h, symbols_to_monitor, bus,
                   rsi_peak_tracker, liveVars, storeVars, event_queue, dbVars, thr, mon,
                   histVars>>

\* GET /data requests beside the market feed and the clock
InitSnapshot ==
    /\ \E sc \in {"armed", "open", "cooldown"} : InitBot(sc)
    /\ coin_changes = [v \in ChangeValues |->
                          IF v = RSI_HOT_COIN_THRESHOLD THEN Cardinality(Symbols) ELSE 0]

NextSnapshot ==
    \/ UpdateMarketData
    \/ GetFullStateSnapshot
    \/ GetDataEntry
    \/ ProcessEvents
    \/ Tick

SpecSnapshot == InitSnapshot /\ [][NextSnapshot]_vars

\* C34: what a caller does to the value get_full_state_snapshot returned,
\* the per-coin records of its market data included, leaves the store as it
\* was.
C34_SnapshotIsDeepCopy ==
    [][obs'.op = "get_data" => /\ coin_status' = coin_status
                               /\ UNCHANGED storeVars]_vars

\* ------------------------------------- DatabaseManager, the trade handlers
\* the handlers DatabaseManager subscribes for the trade events, beside those
\* of Spawned
SpawnedDb(e) ==
    CASE e.type = "TRADE_OPENED" ->
            <<[IdleThread EXCEPT !.kind = "db_handle_trade_opened", !.pc = "db_lookup",
                                 !.trade = e.trade]>>
      [] e.type = "TRADE_CLOSED" ->
            <<[IdleThread EXCEPT !.kind = "db_handle_trade_closed", !.pc = "db_update",
                                 !.trade = e.trade, !.reason = e.reason]>>
      [] OTHER -> Spawned(e)

\* handle_trade_opened, lines 217-219: db_lock is taken, then the symbol is
\* looked up by alert_num in the store's active_trades; the handler returns
\* when no trade has it
DbOpenedLookup(t) ==
    /\ thr[t].pc = "db_lookup"
    /\ DbLockFree
    /\ LET found == {s \in DOMAIN active_trades :
                        active_trades[s].alert_num = thr[t].trade.alert_num}
       IN  \/ /\ found = {}
              /\ thr' = [thr EXCEPT ![t] = IdleThread]
           \/ \E symbol \in found :
                 thr' = [thr EXCEPT ![t].pc = "db_coin", ![t].sym = symbol]
    /\ obs' = Obs("handle_trade_opened", "-", thr[t].trade.source, FALSE, "-")
    /\ UNCHANGED <<timeVars, scanVars, calls, storeVars, event_queue, dbVars, mon, histVars>>

\* line 220: with self.state.lock, inside db_lock
DbOpenedCoin(t) ==
    /\ thr[t].pc = "db_coin"
    /\ StateLockFree
    /\ thr' = [thr EXCEPT ![t].pc = "db_write"]
    /\ obs' = NoObs
    /\ UNCHANGED <<timeVars, scanVars, calls, storeVars, event_queue, dbVars, mon, histVars>>

\* lines 221-233: the row is written unless one with the Alert_id exists
DbOpenedWrite(t) ==
    /\ thr[t].pc = "db_write"
    /\ LET exists == \E r \in db_trades : r.alert_id = thr[t].trade.alert_num
       IN  /\ db_trades' =
                 IF exists THEN db_trades
                 ELSE db_trades \cup {DbRow(thr[t].trade.alert_num, thr[t].sym, "Open",
                                            FALSE, 0, now, thr[t].trade.source)}
           /\ obs' = Obs("handle_trade_opened", thr[t].sym, thr[t].trade.source, ~exists, "-")
    /\ thr' = [thr EXCEPT ![t] = IdleThread]
    /\ UNCHANGED <<timeVars, scanVars, calls, storeVars, event_queue, alert_counter, mon,
                   histVars>>

\* _update_trade_in_db, lines 301-328: UPDATE ... WHERE Alert_id = ?
update_trade_in_db(alert_num, new_status, has_pnl, pnl_usdt) ==
    {IF r.alert_id = alert_num
     THEN [r EXCEPT !.status = new_status, !.has_pnl = has_pnl, !.pnl_usdt = pnl_usdt]
     ELSE r : r \in db_trades}

\* handle_trade_closed, lines 235-246
DbClosed(t) ==
    /\ thr[t].pc = "db_update"
    /\ DbLockFree
    /\ db_trades' = update_trade_in_db(thr[t].trade.alert_num, "Closed", TRUE,
                                       thr[t].trade.pnl_usdt)
    /\ obs' = Obs("handle_trade_closed", "-", thr[t].trade.source,
                  \E r \in db_trades : r.alert_id = thr[t].trade.alert_num, "-")
    /\ thr' = [thr EXCEPT ![t] = IdleThread]
    /\ UNCHANGED <<timeVars, scanVars, calls, storeVars, event_queue, alert_counter, mon,
                   histVars>>

\* POST /master-reset with action discard_trades, server.py lines 342-344:
\* the store's lock is taken for the whole loop
DiscardTrades ==
    /\ Call
    /\ FreeSlots # {}
    /\ StateLockFree
    /\ thr' = IF active_trades = <<>> THEN thr
              ELSE [thr EXCEPT ![FirstFree] =
                      [IdleThread EXCEPT !.kind = "discard_trades", !.pc = "discard_pop"]]
    /\ obs' = NoObs
    /\ UNCHANGED <<timeVars, scanVars, storeVars, event_queue, dbVars, mon, histVars>>

\* lines 345-346: the next symbol's record is popped; the block ends after
\* the last one
DiscardPop(t) ==
    /\ thr[t].pc = "discard_pop"
    /\ \/ /\ DOMAIN active_trades = {}
          /\ UNCHANGED active_trades
          /\ thr' = [thr EXCEPT ![t] = IdleThread]
       \/ \E symbol \in DOMAIN active_trades :
             /\ active_trades' = DictPop(active_trades, symbol)
             /\ thr' = [thr EXCEPT ![t].pc = "discard_update", ![t].sym = symbol,
                                   ![t].trade = active_trades[symbol]]
    /\ obs' = NoObs
    /\ UNCHANGED <<timeVars, scanVars, calls, coin_data, rsi_data, cooldowned_coins, portfolio,
                   global_stats, controls, alert_log, last_trade_execution_time,
                   pause_timers, event_queue, dbVars, mon, histVars>>

\* line 347: _update_trade_in_db (it takes db_lock) inside the store's lock
DiscardUpdate(t) ==
    /\ thr[t].pc = "discard_update"
    /\ DbLockFree
    /\ db_trades' = update_trade_in_db(thr[t].trade.alert_num, "Closed", FALSE, 0)
    /\ thr' = [thr EXCEPT ![t].pc = "discard_pop"]
    /\ obs' = NoObs
    /\ UNCHANGED <<timeVars, scanVars, calls, storeVars, event_queue, alert_counter, mon,
                   histVars>>

\* the thread holds one lock and its next step takes the other
WaitsForStateLock(t) == thr[t].pc = "db_coin"
WaitsForDbLock(t) == thr[t].pc \in {"discard_update", "sync_db_trades", "sync_alert"}

\* Paper trading with the persistence: samples for X, the operator's manual
\* close and discard, the bus, the handlers of both subscribers.  A step that
\* enters a critical section waits for its lock.
InitPersistence ==
    /\ \E sc \in {"armed", "open"} : InitBot(sc)
    /\ coin_changes = [v \in ChangeValues |->
                          IF v = RSI_HOT_COIN_THRESHOLD THEN Cardinality(Symbols) ELSE 0]

NextPersistence ==
    \/ StateLockFree /\ UpdateRsi("X", 96)
    \/ StateLockFree /\ ManualClose
    \/ DiscardTrades
    \/ ProcessEventsWith(SpawnedDb)
    \/ \E t \in Threads : StateLockFree /\ RsiCheck(t)
    \/ \E t \in Threads : StateLockFree /\ RsiDecide(t)
    \/ \E t \in Threads : StateLockFree /\ RsiMargin(t)
    \/ \E t \in Threads : DbLockFree /\ GetNextAlertNumber(t)
    \/ \E t \in Threads : StateLockFree /\ ThreadOpenTrade(t)
    \/ \E t \in Threads : ThreadOpenPublish(t)
    \/ \E t \in Threads : StateLockFree /\ ThreadCloseTrade(t)
    \/ \E t \in Threads : ThreadClosePublish(t)
    \/ \E t \in Threads : StateLockFree /\ HandleAddToCooldown(t)
    \/ \E t \in Threads : DbOpenedLookup(t)
    \/ \E t \in Threads : DbOpenedCoin(t)
    \/ \E t \in Threads : DbOpenedWrite(t)
    \/ \E t \in Threads : DbClosed(t)
    \/ \E t \in Threads : DiscardPop(t)
    \/ \E t \in Threads : DiscardUpdate(t)

SpecPersistence == InitPersistence /\ [][NextPersistence]_vars

\* C35: no two threads wait for each other's lock, one holding the lock of
\* the store and waiting for the persistence lock, the other the reverse.
C35_NoLockCycle ==
    ~ \E a \in Threads : \E b \in Threads \ {a} :
         /\ HoldsStateLock(a) /\ WaitsForDbLock(a)
         /\ HoldsDbLock(b) /\ WaitsForStateLock(b)

\* nothing is under way: no event is queued and no handler or request runs
AtRest == event_queue = <<>> /\ \A t \in Threads : thr[t].kind = "idle"

\* C38: once the handlers of its events are through, a trade that was opened
\* and then closed has a row with status Closed: at rest the trades table
\* holds a Closed row for each of the closes counted in global_stats.
C38_ClosedTradePersisted ==
    AtRest =>
       Cardinality({r \in db_trades : r.status = "Closed"}) >=
          global_stats.profitable_trades + global_stats.loss_trades

\* ------------------------------------------------ the pause, tripped again
MaxPauseCalls == 3     \* external calls per run: a trip, the operator's lift, a trip

\* The breaker with the operator's lift and the clock
NextRetrip ==
    \/ Tick
    \/ TickToDeadline
    \/ ActivateGlobalPauseWithin(MaxPauseCalls)
    \/ ToggleControlWithin(MaxPauseCalls, {<<"global_pause_active", "resume">>})
    \/ TimerLift
    \/ ProcessEvents

SpecRetrip == Init /\ [][NextRetrip]_vars

\* C36: a timer lifts the pause no earlier than the pause duration after the
\* activation that started this pause, whose timer is the last one started.
C36_NoEarlyAutoLift ==
    [][(obs'.op = "lift_global_pause" /\ obs'.src = "timer" /\ obs'.ok) =>
          now >= pause_timers[Len(pause_timers)]]_vars

\* C37: in Live mode every order the exchange has filled becomes the
\* ActiveTrade of its symbol: the open_trade call that follows a fill takes
\* effect, so that no position has two open-short orders behind it.
C37_OneOrderPerPosition ==
    [][(obs'.op = "open_trade" /\ obs'.src = "Live") => obs'.ok]_vars

\* ------------------------------------------- the operator's cooldown events
\* POST /set-cooldown for X, then POST /remove-cooldown/X, in this order; the
\* bus and the two handler threads; the clock.
NextCooldowns ==
    \/ calls = 0 /\ SetCooldown
    \/ calls = 1 /\ RemoveCooldown
    \/ ProcessEvents
    \/ \E t \in Threads : HandleAddToCooldown(t)
    \/ \E t \in Threads : HandleRemoveFromCooldown(t)
    \/ Tick

SpecCooldowns == Init /\ [][NextCooldowns]_vars

\* C39: once the add and the later remove of X's cooldown have both been
\* handled, the store reflects the remove: X has no cooldown entry.
C39_LastCooldownEventWins ==
    (AtRest /\ calls = 2) => "X" \notin DOMAIN cooldowned_coins
====
